---- MODULE Spec2Model ----
(***************************************************************************)
(* Katnip compiler front end: the Lexer (packages/compiler/src/lexer/      *)
(* Lexer.ts, the trie-based class of lines 1-422, with the token table and *)
(* OperatorTrie of lines 766-940) and the Parser (unnamed/part_008) with   *)
(* its binding power table.                                                *)
(*                                                                         *)
(* A character is a one-character string; the source text, the lexer's     *)
(* buffer and a trie node (the prefix that leads to it) are sequences of    *)
(* characters.  A token's value is the TLA+ string of its characters.       *)
(***************************************************************************)
EXTENDS Integers, Sequences, FiniteSets, TLC

VARIABLES
    pc,                     \* where the caller is: "idle", "lexing", "lexed", ...
    src,                    \* Lexer.src
    position,               \* Lexer.position
    line,                   \* Lexer.line
    lineStart,              \* Lexer.lineStart
    col,                    \* Lexer.col
    colStart,               \* Lexer.colStart
    currentState,           \* Lexer.currentState
    buffer,                 \* Lexer.buffer
    stringQuote,            \* Lexer.stringQuote
    commentType,            \* Lexer.commentType
    operatorNode,           \* Lexer.operatorNode
    lastValidOperatorNode,  \* Lexer.lastValidOperatorNode
    tokens,                 \* Lexer.tokens: what the array holds
    returned,               \* the array the last tokenize call returned: what it
                            \* holds, and whether it still is Lexer.tokens
    reporter,               \* ErrorReporter.errors
    cli,                    \* the command the CLI runs, and what it has printed
                            \* and written
    parserTokens,           \* Parser.tokens
    parserPosition,         \* Parser.position
    stack,                  \* the Parser's call stack: one frame per method running
    ret                     \* what the method that returned last returned

lexerVars == <<src, position, line, lineStart, col, colStart, currentState, buffer,
               stringQuote, commentType, operatorNode, lastValidOperatorNode, tokens,
               returned>>

parserVars == <<parserTokens, parserPosition, stack, ret>>

vars == <<pc, lexerVars, reporter, parserVars, cli>>

(***************************************************************************)
(* Bounds of the model.                                                    *)
(***************************************************************************)
\* the reporter's list stops growing at MaxErrors entries
MaxErrors == 6
\* a source text is a concatenation of at most MaxPieces pieces
MaxPieces == 4
\* a list of the parser's (statements, members, arguments, ...) stops growing at
\* MaxElements entries
MaxElements == 6
\* a token sequence handed to parse is made of at most MaxTokenPieces pieces
MaxTokenPieces == 3
\* a valid source holds at most MaxPrograms declarations and statements
MaxPrograms == 3
\* an enum holds at most MaxMembers members, a procedure at most MaxMembers parameters
MaxMembers == 3

(***************************************************************************)
(* Characters.                                                             *)
(***************************************************************************)
\* U+0004, the sentinel tokenize appends
EOT == "<EOT>"
\* JavaScript's null and undefined, as peek and advance return them
Null == "<null>"
Undefined == "<undefined>"
\* a token that is null, and a node that is null or not yet assigned
NoToken == [type |-> Null]
NoNode == [type |-> Undefined]

LowerLetters == {"a", "b", "c", "d", "e", "f", "g", "h", "i", "j", "k", "l", "m",
                 "n", "o", "p", "q", "r", "s", "t", "u", "v", "w", "x", "y", "z"}
UpperLetters == {"A", "B", "C", "D", "E", "F", "G", "H", "I", "J", "K", "L", "M",
                 "N", "O", "P", "Q", "R", "S", "T", "U", "V", "W", "X", "Y", "Z"}
Digits == {"0", "1", "2", "3", "4", "5", "6", "7", "8", "9"}

\* /\s/
IsWhitespace(c) == c \in {" ", "\t", "\n", "\r", "\f"}
\* /[a-zA-Z_]/
IsIdentifierStart(c) == c \in LowerLetters \cup UpperLetters \cup {"_"}
\* /[a-zA-Z0-9_]/
IsIdentifierPart(c) == IsIdentifierStart(c) \/ c \in Digits
\* /[0-9]/ ; tested on "undefined" when peek(1) is past the end
IsDigit(c) == c \in Digits
\* /[0-9a-fA-F]/
IsHexDigit(c) == c \in Digits \cup {"a", "b", "c", "d", "e", "f", "A", "B", "C", "D", "E", "F"}

RECURSIVE Join(_)
\* the string of a sequence of characters
Join(chars) == IF chars = <<>> THEN "" ELSE Head(chars) \o Join(Tail(chars))

RECURSIVE TrimLeft(_)
TrimLeft(chars) ==
    IF chars # <<>> /\ IsWhitespace(Head(chars)) THEN TrimLeft(Tail(chars)) ELSE chars

RECURSIVE TrimRight(_)
TrimRight(chars) ==
    IF chars # <<>> /\ IsWhitespace(chars[Len(chars)])
    THEN TrimRight(SubSeq(chars, 1, Len(chars) - 1))
    ELSE chars

\* String.prototype.trim
Trim(chars) == TrimRight(TrimLeft(chars))

\* String.prototype.includes, for one character
Includes(chars, c) == \E i \in 1..Len(chars) : chars[i] = c

\* buffer.slice(-1)
LastChar(chars) == IF chars = <<>> THEN "" ELSE chars[Len(chars)]

(***************************************************************************)
(* Token model.                                                            *)
(***************************************************************************)
ValuedTokenType ==
    {"String", "InterpolatedString", "InsideInterpolatedString", "Number",
     "Comment_SingleExpanded", "Comment_SingleCollapsed", "Comment_SingleIgnored",
     "Comment_MultilineExpanded", "Comment_MultilineCollapsed", "Comment_MultilineIgnored",
     "Identifier", "ErrorToken"}

\* the values of the UnitTokenType object, each with its characters
UnitTokenType ==
    {<<"[">>, <<"]">>, <<"{">>, <<"}">>, <<"(">>, <<")">>,
     <<".">>, <<",">>, <<":">>, <<";">>, <<"@">>,
     <<"#">>, <<"?">>,
     <<"+">>, <<"-">>, <<"*">>, <<"/">>, <<"%">>, <<"^">>, <<"!">>, <<"&">>, <<"|">>,
     <<"<">>, <<">">>, <<"=">>,
     <<"*", "*">>, <<"=", "=">>, <<"<", "=">>, <<">", "=">>, <<"&", "&">>, <<"|", "|">>,
     <<"!", "&">>, <<"!", "|">>, <<"!", "^">>,
     <<"+", "=">>, <<"-", "=">>, <<"*", "=">>, <<"*", "*", "=">>, <<"/", "=">>, <<"%", "=">>,
     <<"-", ">">>, <<"\n">>, <<"<", "E", "O", "F", ">">>}

UnitTokenTypeNames == {Join(op) : op \in UnitTokenType}

isValuedTokenType(type) == type \in ValuedTokenType

isUnitTokenType(type) == type \in UnitTokenTypeNames

\* the one-character values of UnitTokenType
singleCharUnitTokens == {op[1] : op \in {o \in UnitTokenType : Len(o) = 1}}

(***************************************************************************)
(* OperatorTrie: a node is the sequence of characters on the path from the  *)
(* root; its tokenType is set when that sequence is an operator.            *)
(***************************************************************************)
TrieNodes == UNION {{SubSeq(op, 1, n) : n \in 0..Len(op)} : op \in UnitTokenType}

\* no node (null)
NullNode == <<Null>>

\* OperatorTrie.start
TrieStart == <<>>

\* a trie that holds the one-character operators only
TrieStepOneChar(node, char) ==
    IF node = <<>> /\ <<char>> \in UnitTokenType THEN <<char>> ELSE <<Null>>

\* OperatorTrie.step
TrieStep(node, char) ==
    IF Append(node, char) \in TrieNodes THEN Append(node, char) ELSE NullNode

\* OperatorTrieNode.tokenType (Null when the node ends no operator)
NodeTokenType(node) == IF node \in UnitTokenType THEN Join(node) ELSE Null

\* lastValidOperatorNode = null
NoLastValid == [node |-> NullNode, len |-> 0]

\* no command has run: nothing printed, no file written
\* and process.exitCode, which decides the exit status, is not set
NoCommand ==
    [command |-> Null, printed |-> <<>>, caught |-> FALSE, written |-> Null,
     exitCode |-> 0]

(***************************************************************************)
(* Diagnostic reporter.                                                    *)
(***************************************************************************)
KatnipError(source, message, location) ==
    [source |-> source, message |-> message,
     line |-> location.line, column |-> location.column]

\* ErrorReporter.add; the list keeps at most MaxErrors entries
ReporterAdd(errors, error) ==
    IF Len(errors) < MaxErrors THEN Append(errors, error) ELSE errors

(***************************************************************************)
(* Lexer.  The methods are operators on a record s of the Lexer's fields   *)
(* plus errors, the list of the reporter the lexer was constructed with.   *)
(***************************************************************************)
LexerState == {"Start", "Identifier", "String", "EscapedString", "Number",
               "Operator", "Comment"}

Pos(l, c) == [line |-> l, column |-> c]

\* Lexer.peek
Peek(s, distance) ==
    IF s.position < Len(s.src)
    THEN IF s.position + distance < Len(s.src)
         THEN s.src[s.position + distance + 1]
         ELSE Undefined
    ELSE Null

\* Lexer.advance, one round of its loop: the fields after it
\* an advance that counts every character as one more column of the same line
AdvanceSameLine(s) ==
    LET char == Peek(s, 0) IN
    IF char # Null
    THEN [s EXCEPT !.position = @ + 1, !.col = @ + 1]
    ELSE s

Advance(s) ==
    LET char == Peek(s, 0) IN
    IF char # Null
    THEN [s EXCEPT !.position = @ + 1,
                   !.line = IF char = "\n" THEN @ + 1 ELSE @,
                   !.col = IF char = "\n" THEN 1 ELSE @ + 1]
    ELSE s

\* what `x += this.advance()` appends: the character, or the text "null"
AsText(char) == IF char = Null THEN <<"n", "u", "l", "l">> ELSE <<char>>

\* this.buffer += this.advance()
BufferAdvance(s) == [Advance(s) EXCEPT !.buffer = @ \o AsText(Peek(s, 0))]

\* Lexer.emit
Emit(s, type) ==
    LET text == Trim(s.buffer)
        start == Pos(s.lineStart, s.colStart)
        end == Pos(s.line, s.col)
        pushed ==
            IF isValuedTokenType(type)
            THEN Append(s.tokens, [type |-> type, value |-> Join(text),
                                   start |-> start, end |-> end])
            ELSE IF isUnitTokenType(type)
            THEN Append(s.tokens, [type |-> type, start |-> start, end |-> end])
            ELSE s.tokens
    IN [s EXCEPT !.tokens = pushed, !.buffer = <<>>, !.currentState = "Start"]

\* the lexer's own part of the record
SetError(s, message, at) ==
    [s EXCEPT !.errors = ReporterAdd(@, KatnipError("Lexer", message, Pos(at.line, at.col)))]

(***************************************************************************)
(* String.fromCharCode(parseInt(unicodeBuffer, 16))                        *)
(***************************************************************************)
HexDigitChars == <<"0", "1", "2", "3", "4", "5", "6", "7", "8", "9",
                   "a", "b", "c", "d", "e", "f">>
UpperHexDigitChars == <<"0", "1", "2", "3", "4", "5", "6", "7", "8", "9",
                        "A", "B", "C", "D", "E", "F">>

HexValue(c) ==
    CHOOSE v \in 0..15 : HexDigitChars[v + 1] = c \/ UpperHexDigitChars[v + 1] = c

RECURSIVE HexPrefixValue(_, _)
\* the value of the longest prefix of hex digits, acc being the value so far
HexPrefixValue(chars, acc) ==
    IF chars # <<>> /\ IsHexDigit(Head(chars))
    THEN HexPrefixValue(Tail(chars), acc * 16 + HexValue(Head(chars)))
    ELSE acc

\* parseInt(text, 16), then ToUint16 as fromCharCode applies it (NaN gives 0)
ParseIntHexCode(chars) ==
    LET t == TrimLeft(chars)
        negative == t # <<>> /\ Head(t) = "-"
        unsigned == IF t # <<>> /\ Head(t) \in {"+", "-"} THEN Tail(t) ELSE t
        digits == IF Len(unsigned) >= 2 /\ unsigned[1] = "0" /\ unsigned[2] \in {"x", "X"}
                  THEN Tail(Tail(unsigned))
                  ELSE unsigned
        value == HexPrefixValue(digits, 0)
    IN IF negative THEN (65536 - (value % 65536)) % 65536 ELSE value % 65536

\* the characters of codes 32..126 (the grave accent, code 96, written \u0060)
AsciiPrintable ==
    <<" ", "!", "\"", "#", "$", "%", "&", "'", "(", ")", "*", "+", ",", "-", ".", "/",
      "0", "1", "2", "3", "4", "5", "6", "7", "8", "9", ":", ";", "<", "=", ">", "?",
      "@", "A", "B", "C", "D", "E", "F", "G", "H", "I", "J", "K", "L", "M", "N", "O",
      "P", "Q", "R", "S", "T", "U", "V", "W", "X", "Y", "Z", "[", "\\", "]", "^", "_",
      "\\u0060", "a", "b", "c", "d", "e", "f", "g", "h", "i", "j", "k", "l", "m", "n", "o",
      "p", "q", "r", "s", "t", "u", "v", "w", "x", "y", "z", "{", "|", "}", "~">>

\* String.fromCharCode; a character outside the table is written \uXXXX
FromCharCode(code) ==
    IF code \in 32..126 THEN AsciiPrintable[code - 31]
    ELSE IF code = 9 THEN "\t"
    ELSE IF code = 10 THEN "\n"
    ELSE IF code = 13 THEN "\r"
    ELSE IF code = 12 THEN "\f"
    ELSE IF code = 4 THEN EOT
    ELSE "\\u" \o HexDigitChars[(code \div 4096) + 1]
               \o HexDigitChars[((code \div 256) % 16) + 1]
               \o HexDigitChars[((code \div 16) % 16) + 1]
               \o HexDigitChars[(code % 16) + 1]

\* the number of characters a \u escape reads
UnicodeEscapeLength == 4

RECURSIVE UnicodeEscape(_, _, _)
\* the for loop of the \u escape: i rounds done, unicodeBuffer read so far
UnicodeEscape(s, i, unicodeBuffer) ==
    IF i = UnicodeEscapeLength
    THEN [s EXCEPT !.buffer = @ \o <<FromCharCode(ParseIntHexCode(unicodeBuffer))>>]
    ELSE LET nextChar == Peek(s, 0)
             s1 == Advance(s)
             s2 == IF nextChar = Null \/ ~IsHexDigit(nextChar)
                   THEN SetError(s1, "Invalid Unicode escape sequence", s1)
                   ELSE s1
         IN UnicodeEscape(s2, i + 1, unicodeBuffer \o AsText(nextChar))

\* escapeSequenceMap[escaped] ?? escaped
EscapeSequence(escaped) ==
    CASE escaped = "n" -> "\n"
      [] escaped = "t" -> "\t"
      [] escaped = "r" -> "\r"
      [] OTHER -> escaped

(***************************************************************************)
(* Lexer.processState, one operator per case of its switch.                *)
(***************************************************************************)
StateIdentifier(s, char) ==
    IF IsIdentifierPart(char) THEN BufferAdvance(s) ELSE Emit(s, "Identifier")

StateString(s, char) ==
    IF char = s.stringQuote THEN Emit(BufferAdvance(s), "String")
    ELSE IF char = "\\" THEN [BufferAdvance(s) EXCEPT !.currentState = "EscapedString"]
    ELSE BufferAdvance(s)

StateEscapedString(s, char) ==
    LET escaped == Peek(s, 0)
        s1 == Advance(s)
    IN IF escaped = Null
       THEN SetError(s1, "Unterminated string literal", s1)
       ELSE LET s2 == IF escaped = "u"
                      THEN UnicodeEscape(s1, 0, <<>>)
                      ELSE [s1 EXCEPT !.buffer = @ \o <<EscapeSequence(escaped)>>]
            IN [s2 EXCEPT !.currentState = "String"]

\* a Number state that takes every decimal point into the number
StateNumberAnyPoints(s, char) ==
    IF IsDigit(char) \/ char = "." THEN BufferAdvance(s) ELSE Emit(s, "Number")

StateNumber(s, char) ==
    IF IsDigit(char) THEN BufferAdvance(s)
    ELSE IF char = "." THEN
        IF Includes(s.buffer, ".")
        THEN Emit(SetError(s, "Invalid number format: Multiple decimal points", s), "Number")
        ELSE BufferAdvance(s)
    ELSE IF char \in {"e", "E"} THEN
        IF Includes(s.buffer, "e") \/ Includes(s.buffer, "E")
        THEN Emit(SetError(s, "Invalid number format: Multiple exponentional notation characters", s),
                  "Number")
        ELSE BufferAdvance(s)
    ELSE IF char \in {"+", "-"} THEN
        IF LastChar(s.buffer) \in {"e", "E"} THEN BufferAdvance(s) ELSE Emit(s, "Number")
    ELSE IF char \in {"x", "b", "o"} THEN
        IF s.buffer = <<"0">> THEN BufferAdvance(s) ELSE Emit(s, "Number")
    ELSE Emit(s, "Number")

\* the rewind loop: position-- and col--, `rewind` times
Rewind(s, rewind) ==
    IF rewind > 0
    THEN [s EXCEPT !.position = @ - rewind, !.col = @ - rewind]
    ELSE s

StateOperator(s0, char) ==
    LET s == IF s0.operatorNode = NullNode
             THEN [s0 EXCEPT !.operatorNode = TrieStart,
                             !.lastValidOperatorNode = NoLastValid]
             ELSE s0
        stepNode == TrieStep(s.operatorNode, char)
    IN IF stepNode # NullNode
       THEN LET s1 == [BufferAdvance(s) EXCEPT !.operatorNode = stepNode]
            IN IF NodeTokenType(stepNode) # Null
               THEN [s1 EXCEPT !.lastValidOperatorNode =
                                   [node |-> stepNode, len |-> Len(s1.buffer)]]
               ELSE s1
       ELSE LET s2 ==
                    IF s.lastValidOperatorNode # NoLastValid
                    THEN LET opNode == s.lastValidOperatorNode.node
                             s3 == IF NodeTokenType(opNode) # Null
                                   THEN Emit(s, NodeTokenType(opNode))
                                   ELSE s
                         IN Rewind(s3, Len(s3.buffer) - s.lastValidOperatorNode.len)
                    ELSE Advance(SetError(s, "Invalid operator '" \o Join(s.buffer) \o char \o "'", s))
            IN [s2 EXCEPT !.operatorNode = NullNode,
                          !.lastValidOperatorNode = NoLastValid,
                          !.buffer = <<>>,
                          !.currentState = "Start"]

\* commentMap: the token type and the end delimiter of each comment type
commentMap ==
    [none |-> [tokenType |-> "Comment_SingleExpanded", commentEnd |-> <<"\n">>]] @@
    ("*" :> [tokenType |-> "Comment_SingleCollapsed", commentEnd |-> <<"\n">>]) @@
    ("!" :> [tokenType |-> "Comment_SingleIgnored", commentEnd |-> <<"\n">>]) @@
    ("<" :> [tokenType |-> "Comment_MultilineExpanded", commentEnd |-> <<">", "#">>]) @@
    (">" :> [tokenType |-> "Comment_MultilineCollapsed", commentEnd |-> <<"<", "#">>]) @@
    ("[" :> [tokenType |-> "Comment_MultilineIgnored", commentEnd |-> <<"]", "#">>])

StateComment(s, char) ==
    IF s.commentType = ""
    THEN LET nextChar == Peek(s, 0)
         IN [Advance(s) EXCEPT !.commentType =
                IF nextChar # Null /\ nextChar \in DOMAIN commentMap THEN nextChar ELSE "none"]
    ELSE LET tokenType == commentMap[s.commentType].tokenType
             commentEnd == commentMap[s.commentType].commentEnd
         IN IF Len(commentEnd) = 2 /\ <<char, Peek(s, 1)>> = commentEnd
            THEN LET s1 == Advance(Advance(s))
                     s2 == IF tokenType # "Comment_MultilineIgnored"
                           THEN Emit(s1, tokenType) ELSE s1
                 IN [s2 EXCEPT !.currentState = "Start", !.commentType = ""]
            ELSE IF Len(commentEnd) = 1 /\ <<char>> = commentEnd
            THEN LET s1 == Advance(s)
                     s2 == IF tokenType # "Comment_SingleIgnored"
                           THEN Emit(s1, tokenType) ELSE s1
                 IN [s2 EXCEPT !.currentState = "Start", !.commentType = ""]
            ELSE BufferAdvance(s)

\* Lexer.processState
ProcessState(s, char) ==
    CASE s.currentState = "Identifier" -> StateIdentifier(s, char)
      [] s.currentState = "String" -> StateString(s, char)
      [] s.currentState = "EscapedString" -> StateEscapedString(s, char)
      [] s.currentState = "Number" -> StateNumber(s, char)
      [] s.currentState = "Operator" -> StateOperator(s, char)
      [] s.currentState = "Comment" -> StateComment(s, char)
      [] OTHER -> s

\* the Start branch of Lexer.processChar
StateStart(s0, char) ==
    LET s == [s0 EXCEPT !.colStart = s0.col, !.lineStart = s0.line]
    IN IF IsWhitespace(char) THEN Advance(s)
       ELSE IF IsIdentifierStart(char)
       THEN BufferAdvance([s EXCEPT !.currentState = "Identifier"])
       ELSE IF char = "-" \/ IsDigit(char) \/ (char = "." /\ IsDigit(Peek(s, 1)))
       THEN IF Peek(s, 1) = "." \/ IsDigit(Peek(s, 1)) \/ IsDigit(char)
            THEN BufferAdvance([s EXCEPT !.currentState = "Number"])
            ELSE [s EXCEPT !.currentState = "Operator"]
       ELSE IF char \in {"\"", "'"}
       THEN BufferAdvance([s EXCEPT !.stringQuote = char, !.currentState = "String"])
       ELSE IF char = "#"
       THEN Advance([s EXCEPT !.currentState = "Comment"])
       ELSE IF char \in singleCharUnitTokens
       THEN [s EXCEPT !.currentState = "Operator", !.operatorNode = TrieStart]
       ELSE IF char = EOT
       THEN Emit(Advance(s), "<EOF>")
       ELSE SetError(s, "Unexpected character '" \o char \o "'", s)

\* Lexer.processChar
ProcessChar(s, char) ==
    IF s.currentState = "Start" THEN StateStart(s, char) ELSE ProcessState(s, char)

\* the first statements of Lexer.tokenize: the source without U+0004 and \r,
\* the sentinel appended, the fields reset
TokenizeSource(raw) == SelectSeq(raw, LAMBDA c : c # EOT /\ c # "\r") \o <<EOT>>

\* a reset that empties the array Lexer.tokens is, instead of taking a new one
TokenizeResetInPlace(s, raw) ==
    [s EXCEPT !.src = TokenizeSource(raw),
              !.position = 0, !.line = 1, !.lineStart = 0, !.col = 1, !.colStart = 1,
              !.currentState = "Start", !.buffer = <<>>, !.stringQuote = Null,
              !.commentType = "", !.operatorNode = NullNode, !.tokens = <<>>]

\* this.tokens = [] is a new array: the one returned before is Lexer.tokens no more
TokenizeReset(s, raw) ==
    [s EXCEPT !.src = TokenizeSource(raw),
              !.position = 0, !.line = 1, !.lineStart = 0, !.col = 1, !.colStart = 1,
              !.currentState = "Start", !.buffer = <<>>, !.stringQuote = Null,
              !.commentType = "", !.operatorNode = NullNode, !.tokens = <<>>,
              !.returned.live = FALSE]

\* no tokenize call has returned yet
NothingReturned == [array |-> <<>>, live |-> FALSE]

\* a tokenize that returns without its final emit
TokenizeEndNoEmit(s) == [s EXCEPT !.buffer = <<>>]

\* the last statements of Lexer.tokenize
TokenizeEnd(s) ==
    LET end == Emit([s EXCEPT !.buffer = <<EOT>>], "<EOF>")
    IN [end EXCEPT !.returned = [array |-> end.tokens, live |-> TRUE]]

(***************************************************************************)
(* The state machine.                                                      *)
(***************************************************************************)
\* the Lexer's fields and its reporter's list, as the operators above take them
LexerView ==
    [src |-> src, position |-> position, line |-> line, lineStart |-> lineStart,
     col |-> col, colStart |-> colStart, currentState |-> currentState,
     buffer |-> buffer, stringQuote |-> stringQuote, commentType |-> commentType,
     operatorNode |-> operatorNode, lastValidOperatorNode |-> lastValidOperatorNode,
     tokens |-> tokens, returned |-> returned, errors |-> reporter]

SetLexer(s) ==
    /\ src' = s.src
    /\ position' = s.position
    /\ line' = s.line
    /\ lineStart' = s.lineStart
    /\ col' = s.col
    /\ colStart' = s.colStart
    /\ currentState' = s.currentState
    /\ buffer' = s.buffer
    /\ stringQuote' = s.stringQuote
    /\ commentType' = s.commentType
    /\ operatorNode' = s.operatorNode
    /\ lastValidOperatorNode' = s.lastValidOperatorNode
    /\ tokens' = s.tokens
    /\ returned' = IF s.returned.live
                   THEN [s.returned EXCEPT !.array = s.tokens]
                   ELSE s.returned
    /\ reporter' = s.errors

\* new Lexer(reporter) with a new ErrorReporter: the field initialisers
Init ==
    /\ pc = "idle"
    /\ src = <<>>
    /\ position = 0
    /\ line = 1
    /\ lineStart = 0
    /\ col = 1
    /\ colStart = 1
    /\ currentState = "Start"
    /\ buffer = <<>>
    /\ stringQuote = Null
    /\ commentType = ""
    /\ operatorNode = NullNode
    /\ lastValidOperatorNode = NoLastValid
    /\ tokens = <<>>
    /\ returned = NothingReturned
    /\ reporter = <<>>
    /\ cli = NoCommand
    /\ parserTokens = <<>>
    /\ parserPosition = 0
    /\ stack = <<>>
    /\ ret = NoNode

\* tokenize(raw) is called, raw one of `sources`: up to the while loop
Tokenize(sources) ==
    /\ pc = "idle"
    /\ \E raw \in sources : SetLexer(TokenizeReset(LexerView, raw))
    /\ pc' = "lexing"
    /\ UNCHANGED <<parserVars, cli>>

\* one round of the while loop of tokenize
LexerStep ==
    /\ pc = "lexing"
    /\ position < Len(src)
    /\ Peek(LexerView, 0) # Null
    /\ SetLexer(ProcessChar(LexerView, Peek(LexerView, 0)))
    /\ pc' = pc
    /\ UNCHANGED <<parserVars, cli>>

\* the while loop is left: the final EOF token, and tokenize returns
TokenizeReturn ==
    /\ pc = "lexing"
    /\ ~(position < Len(src)) \/ Peek(LexerView, 0) = Null
    /\ SetLexer(TokenizeEnd(LexerView))
    /\ pc' = "lexed"
    /\ UNCHANGED <<parserVars, cli>>

(***************************************************************************)
(* Binding powers (parser/BindingPowerTable.ts, the table keyed by token   *)
(* type name).                                                             *)
(***************************************************************************)
BindingPower(lbp, rbp) == [lbp |-> lbp, rbp |-> rbp]

\* the table with unary operators that bind no tighter than any binary operator
bindingPowerTableLooseUnary ==
    [OR |-> BindingPower(20, 19), AND |-> BindingPower(30, 29),
     NOR |-> BindingPower(25, 24), NAND |-> BindingPower(25, 24),
     XNOR |-> BindingPower(25, 24), Caret |-> BindingPower(25, 24),
     EqualsTo |-> BindingPower(45, 44),
     LeftChevron |-> BindingPower(50, 49), RightChevron |-> BindingPower(50, 49),
     LessThanOrEqualsTo |-> BindingPower(50, 49),
     GreaterThanOrEqualsTo |-> BindingPower(50, 49),
     Plus |-> BindingPower(60, 59), Minus |-> BindingPower(60, 59),
     Asterisk |-> BindingPower(70, 69), FwdSlash |-> BindingPower(70, 69),
     Percent |-> BindingPower(70, 69),
     Power |-> BindingPower(80, 81),
     Exclamation |-> BindingPower(0, 0), UnaryMinus |-> BindingPower(0, 0),
     Dot |-> BindingPower(100, 100), ParenOpen |-> BindingPower(110, 110)]

bindingPowerTable ==
    [OR |-> BindingPower(20, 19), AND |-> BindingPower(30, 29),
     NOR |-> BindingPower(25, 24), NAND |-> BindingPower(25, 24),
     XNOR |-> BindingPower(25, 24), Caret |-> BindingPower(25, 24),
     EqualsTo |-> BindingPower(45, 44),
     LeftChevron |-> BindingPower(50, 49), RightChevron |-> BindingPower(50, 49),
     LessThanOrEqualsTo |-> BindingPower(50, 49),
     GreaterThanOrEqualsTo |-> BindingPower(50, 49),
     Plus |-> BindingPower(60, 59), Minus |-> BindingPower(60, 59),
     Asterisk |-> BindingPower(70, 69), FwdSlash |-> BindingPower(70, 69),
     Percent |-> BindingPower(70, 69),
     Power |-> BindingPower(80, 81),
     Exclamation |-> BindingPower(0, 79), UnaryMinus |-> BindingPower(0, 79),
     Dot |-> BindingPower(100, 100), ParenOpen |-> BindingPower(110, 110)]

\* binding powers whose right side is 0: a right operand takes every operator
getBindingPowerNoRight(token) ==
    IF token.type = Null THEN BindingPower(0, 0)
    ELSE IF token.type \in DOMAIN bindingPowerTable
         THEN BindingPower(bindingPowerTable[token.type].lbp, 0)
         ELSE BindingPower(0, 0)

\* binding powers that give a token with no entry in the table a left side of 1
getBindingPowerDefaultOne(token) ==
    IF token.type = Null THEN BindingPower(0, 0)
    ELSE IF token.type \in DOMAIN bindingPowerTable
         THEN bindingPowerTable[token.type]
         ELSE BindingPower(1, 0)

getBindingPower(token) ==
    IF token.type = Null THEN BindingPower(0, 0)
    ELSE IF token.type \in DOMAIN bindingPowerTable
         THEN bindingPowerTable[token.type]
         ELSE BindingPower(0, 0)

(***************************************************************************)
(* Parser (unnamed/part_008).  Its methods run on a record p: the Parser's *)
(* tokens and position, errors (the list of its reporter), the call stack, *)
(* ret (the value the last return handed back) and status.  A token is the *)
(* record the lexer pushes: type, value for a valued type, start and end.  *)
(***************************************************************************)
\* the position { line: -1, column: -1 }
NoPos == Pos(-1, -1)

Loc(start, end) == [start |-> start, end |-> end]

NoLoc == Loc(NoPos, NoPos)

\* a list the parser pushes to; it keeps at most MaxElements entries
\* a push at the front of the list
PushFront(list, x) == IF Len(list) < MaxElements THEN <<x>> \o list ELSE list

Push(list, x) == IF Len(list) < MaxElements THEN Append(list, x) ELSE list

\* Parser.peek
ParserPeek(p) ==
    IF p.position < Len(p.tokens) THEN p.tokens[p.position + 1] ELSE NoToken

\* Parser.previous
previous(p) ==
    IF p.position > 0 /\ p.position <= Len(p.tokens) THEN p.tokens[p.position] ELSE NoToken

\* Parser.isAtEnd
isAtEnd(p) == ParserPeek(p).type = "EOF"

\* an advance that leaves the cursor where it is
ParserAdvanceNowhere(p) == p

\* Parser.advance: the parser after it (it returns previous() of that parser)
\* an advance that moves the cursor whatever the current token is
ParserAdvanceAlways(p) == [p EXCEPT !.position = @ + 1]

ParserAdvance(p) == IF ~isAtEnd(p) THEN [p EXCEPT !.position = @ + 1] ELSE p

\* Parser.checkToken; patterns is the set of the array's entries
checkToken(p, kind, patterns) ==
    IF isAtEnd(p) THEN FALSE
    ELSE LET token == ParserPeek(p) IN
         IF token.type = Null THEN FALSE
         ELSE IF kind = "type" THEN token.type \in patterns
         ELSE IF ~isValuedTokenType(token.type) THEN FALSE
         ELSE token.value \in patterns

\* Parser.tryConsume: the parser after it; it returns checkToken(p, kind, patterns)
\* a tryConsume that moves the cursor whether the token matches or not
tryConsumeAlways(p, kind, patterns) == ParserAdvance(p)

tryConsume(p, kind, patterns) ==
    IF checkToken(p, kind, patterns) THEN ParserAdvance(p) ELSE p

\* this.reporter.add(new KatnipError("Parser", message, location))
ParserError(p, message, location) ==
    [p EXCEPT !.errors = ReporterAdd(@, KatnipError("Parser", message, location))]

\* the report consume and expect make: at the end of the previous token if there
\* is one, else at the start of the current one if there is one
ReportAtPrevious(p, message) ==
    LET previousToken == previous(p)
        currentToken == ParserPeek(p)
    IN IF previousToken.type # Null
       THEN ParserError(p, message, Pos(previousToken.end.line, previousToken.end.column))
       ELSE IF currentToken.type # Null
            THEN ParserError(p, message, currentToken.start)
            ELSE p

\* whether consume or expect finds what it asks for; types and values are the
\* sets of options.type and options.value (every call site gives a type)
Matches(p, types, values) ==
    \/ types # {} /\ checkToken(p, "type", types)
    \/ values # {} /\ checkToken(p, "value", values)

\* a consume that reports nothing when it does not find what it asks for
consumeSilently(p, types, values, message) ==
    IF Matches(p, types, values) THEN ParserAdvance(p) ELSE p

\* Parser.consume: the parser after it
consume(p, types, values, message) ==
    IF Matches(p, types, values) THEN ParserAdvance(p) ELSE ReportAtPrevious(p, message)

ErrorTokenInfo == [type |-> "ErrorToken", value |-> "", start |-> NoPos, end |-> NoPos]

\* Parser.consume: the token it returns
consumed(p, types, values) ==
    IF Matches(p, types, values) THEN previous(ParserAdvance(p)) ELSE ErrorTokenInfo

\* Parser.expect: the parser after it; it returns Matches(p, types, values)
expect(p, types, values, message) ==
    IF Matches(p, types, values) THEN p ELSE ReportAtPrevious(p, message)

(***************************************************************************)
(* The call stack.  A frame holds the method's name, the place `at` it is  *)
(* to resume, its parameters and its locals.                               *)
(***************************************************************************)
Top(p) == p.stack[Len(p.stack)]

Callers(p) == SubSeq(p.stack, 1, Len(p.stack) - 1)

\* the running method moves on to `frame`
Goto(p, frame) == [p EXCEPT !.stack = Append(Callers(p), frame)]

\* the running method, to resume as `frame`, calls the method `callee` starts
Call(p, frame, callee) == [p EXCEPT !.stack = Append(Append(Callers(p), frame), callee)]

\* the running method returns value
Return(p, value) ==
    [p EXCEPT !.stack = Callers(p), !.ret = value,
              !.status = IF Len(p.stack) = 1 THEN "parsed" ELSE @]

\* the running method throws: nothing in the Parser catches
Throw(p, error) == [p EXCEPT !.status = "threw", !.ret = [type |-> error]]

\* a statement that is null
NoStatement == [type |-> Null]

\* this.peek()?.start || { line: -1, column: -1 }
PeekStart(p) == IF ParserPeek(p).type = Null THEN NoPos ELSE ParserPeek(p).start

\* this.peek()?.end || { line: -1, column: -1 }
PeekEnd(p) == IF ParserPeek(p).type = Null THEN NoPos ELSE ParserPeek(p).end

\* if (stmt) list.push(stmt)
PushStatement(list, stmt) == IF stmt.type # Null THEN Push(list, stmt) ELSE list

FrameParse == [fn |-> "parse", at |-> "loop", statements |-> <<>>]

FrameStatement == [fn |-> "parseStatement", at |-> "start", expression |-> NoNode]

FrameProcedure ==
    [fn |-> "parseProcedureDefinition", at |-> "start", nameToken |-> NoToken,
     parsingDecorators |-> TRUE, decorators |-> <<>>, parameters |-> <<>>,
     decoratorNameToken |-> NoToken, parameterNameToken |-> NoToken,
     parameterTypeToken |-> NoNode, returnType |-> NoNode, body |-> <<>>]

FrameEnum ==
    [fn |-> "parseEnumDefinition", at |-> "start", nameToken |-> NoToken, members |-> <<>>]

FrameVariable ==
    [fn |-> "parseVariableDeclaration", at |-> "start", access |-> NoToken,
     variableName |-> NoToken, typeAnnotation |-> NoNode]

\* parseTypeAnnotation only returns this.parseUnionType()
FrameTypeAnnotation == [fn |-> "parseUnionType", at |-> "start", left |-> NoNode]

FramePrimaryType ==
    [fn |-> "parsePrimaryType", at |-> "start", typeNameToken |-> NoToken,
     typeParams |-> <<>>]

FrameExpression(minBP) ==
    [fn |-> "parseExpression", at |-> "start", minBP |-> minBP, left |-> NoNode]

FramePrefix ==
    [fn |-> "parsePrefix", at |-> "start", token |-> NoToken, listContents |-> <<>>,
     dictionaryContents |-> <<>>, key |-> NoNode]

FrameInfix(left, bp) ==
    [fn |-> "parseInfix", at |-> "start", left |-> left, bp |-> bp, token |-> NoToken,
     args |-> <<>>]

FrameBlock == [fn |-> "parseBlockExpression", at |-> "start", body |-> <<>>]

FrameSynchronize(types, values, message) ==
    [fn |-> "synchronize", at |-> "start", types |-> types, values |-> values,
     message |-> message, beginning |-> NoPos]

\* Parser.parse, from its while loop on
parse(p) ==
    LET f == Top(p) IN
    IF f.at = "loop"
    THEN IF ~isAtEnd(p)
         THEN Call(p, [f EXCEPT !.at = "stmt"], FrameStatement)
         ELSE Return(p, [type |-> "Program", body |-> f.statements])
    ELSE Goto(p, [f EXCEPT !.at = "loop", !.statements = PushStatement(@, p.ret)])

\* Parser.synchronize
synchronize(p) ==
    LET f == Top(p) IN
    IF f.at = "start"
    THEN IF ParserPeek(p).type = Null
         THEN Throw(p, "TypeError")
         ELSE Goto(p, [f EXCEPT !.at = "loop", !.beginning = ParserPeek(p).start])
    ELSE IF /\ ParserPeek(p).type # Null
            /\ ~checkToken(p, "type", f.types)
            /\ ~checkToken(p, "value", f.values)
         THEN Goto(ParserAdvance(p), f)
         ELSE Return(IF ParserPeek(p).type = Null
                     THEN ParserError(p, f.message, f.beginning)
                     ELSE p,
                     NoNode)

\* a union node with its two sides exchanged
UnionTypeNodeSwapped(left, right) ==
    [type |-> "UnionType", left |-> right, right |-> left,
     loc |-> Loc(left.loc.start, right.loc.end)]

UnionTypeNode(left, right) ==
    [type |-> "UnionType", left |-> left, right |-> right,
     loc |-> Loc(left.loc.start, right.loc.end)]

\* Parser.parseUnionType
parseUnionType(p) ==
    LET f == Top(p) IN
    CASE f.at = "start" -> Call(p, [f EXCEPT !.at = "left"], FramePrimaryType)
      [] f.at = "left" -> Goto(p, [f EXCEPT !.at = "loop", !.left = p.ret])
      [] f.at = "loop" ->
            IF checkToken(p, "type", {"Pipe"})
            THEN Call(tryConsume(p, "type", {"Pipe"}), [f EXCEPT !.at = "right"],
                      FramePrimaryType)
            ELSE Return(p, f.left)
      [] f.at = "right" ->
            Goto(p, [f EXCEPT !.at = "loop", !.left = UnionTypeNode(f.left, p.ret)])

\* Parser.parsePrimaryType
parsePrimaryType(p) ==
    LET f == Top(p) IN
    CASE f.at = "start" ->
            LET typeNameToken == consumed(p, {"Identifier"}, {})
                p1 == consume(p, {"Identifier"}, {}, "Expected type name")
            IN IF checkToken(p1, "type", {"LeftChevron"})
               THEN Goto(tryConsume(p1, "type", {"LeftChevron"}),
                         [f EXCEPT !.at = "typeParams", !.typeNameToken = typeNameToken])
               ELSE Return(p1, [type |-> "Type", typeName |-> typeNameToken.value,
                                loc |-> Loc(typeNameToken.start, typeNameToken.end)])
      [] f.at = "typeParams" ->
            IF ~checkToken(p, "type", {"RightChevron"})
            THEN Call(p, [f EXCEPT !.at = "typeParam"], FrameTypeAnnotation)
            ELSE LET p1 == consume(p, {"RightChevron"}, {}, "Expected closing '>'")
                 IN Return(p1, [type |-> "Type", typeName |-> f.typeNameToken.value,
                                typeParams |-> f.typeParams,
                                loc |-> Loc(f.typeNameToken.start, previous(p1).end)])
      [] f.at = "typeParam" ->
            LET comma == checkToken(p, "type", {"Comma"})
                p1 == tryConsume(p, "type", {"Comma"})
                p2 == IF ~comma /\ ~checkToken(p1, "type", {"RightChevron"})
                      THEN ParserError(p1, "Expected ',' or '>'", PeekStart(p1))
                      ELSE p1
            IN Goto(p2, [f EXCEPT !.at = "typeParams", !.typeParams = Push(@, p.ret)])

\* Parser.parseEnumDefinition
parseEnumDefinition(p) ==
    LET f == Top(p) IN
    IF f.at = "start"
    THEN LET p1 == consume(p, {"Identifier"}, {"enum"}, "Expected 'enum' keyword")
             nameToken == consumed(p1, {"Identifier"}, {})
             p2 == consume(p1, {"Identifier"}, {}, "Expected enum name")
             p3 == consume(p2, {"BraceOpen"}, {}, "Expected opening brace for enum members")
         IN Goto(p3, [f EXCEPT !.at = "members", !.nameToken = nameToken])
    ELSE IF ~checkToken(p, "type", {"BraceClose"})
         THEN LET memberToken == consumed(p, {"Identifier"}, {})
                  p1 == consume(p, {"Identifier"}, {}, "Expected enum member name")
                  comma == checkToken(p1, "type", {"Comma"})
                  p2 == tryConsume(p1, "type", {"Comma"})
                  p3 == IF ~comma /\ ~checkToken(p2, "type", {"BraceClose"})
                        THEN ParserError(p2, "Expected ',' or ')'", PeekStart(p2))
                        ELSE p2
              IN Goto(p3, [f EXCEPT !.members = Push(@, memberToken.value)])
         ELSE LET p1 == consume(p, {"BraceClose"}, {}, "Expected closing brace for enum members")
              IN Return(p1, [type |-> "EnumDeclaration", name |-> f.nameToken.value,
                             members |-> f.members,
                             loc |-> Loc(f.nameToken.start, PeekEnd(p1))])

VariableDeclarationType == {"private", "public", "temp"}

\* Parser.parseVariableDeclaration
parseVariableDeclaration(p) ==
    LET f == Top(p) IN
    CASE f.at = "start" ->
            LET access == consumed(p, {"Identifier"}, VariableDeclarationType)
                p1 == consume(p, {"Identifier"}, VariableDeclarationType,
                              "Expected 'private', 'temp', or 'public' keyword")
                variableName == consumed(p1, {"Identifier"}, {})
                p2 == consume(p1, {"Identifier"}, {}, "Expected variable name")
                p3 == consume(p2, {"Colon"}, {},
                              "Expected ':' after variable name for type annotation")
            IN Call(p3, [f EXCEPT !.at = "type", !.access = access,
                                  !.variableName = variableName],
                    FrameTypeAnnotation)
      [] f.at = "type" ->
            LET p1 == consume(p, {"Equals"}, {},
                              "Expected '=' after type annotation for variable declaration")
            IN Call(p1, [f EXCEPT !.at = "initializer", !.typeAnnotation = p.ret],
                    FrameExpression(0))
      [] f.at = "initializer" ->
            LET p1 == consume(p, {"Semicolon"}, {},
                              "Expected ';' at the end of variable declaration")
            IN Return(p1, [type |-> "VariableDeclaration", access |-> f.access.value,
                           name |-> f.variableName.value, varType |-> f.typeAnnotation,
                           initializer |-> p.ret,
                           loc |-> Loc(f.access.start, PeekEnd(p1))])

\* parseProcedureDefinition, lines 417-422: the end of a round of the parameter loop
ProcedureParameterEnd(p, f) ==
    Goto(IF ~checkToken(p, "type", {"ParenClose"})
         THEN consume(p, {"Comma"}, {}, "Expected ',' or ')'")
         ELSE p,
         [f EXCEPT !.at = "parameters"])

DecoratorNode(name, value) ==
    [type |-> "Decorator", name |-> name, value |-> value,
     loc |-> Loc(value.loc.start, value.loc.end)]

\* parseProcedureDefinition, lines 369-391: the decorator's value
ProcedureDecoratorValue(p, f) ==
    IF checkToken(p, "type", {"Equals"})
    THEN Call(tryConsume(p, "type", {"Equals"}), [f EXCEPT !.at = "decoratorExpression"],
              FrameExpression(0))
    ELSE LET decoratorValue ==
                 [type |-> "Literal", value |-> "true", valueType |-> "string",
                  loc |-> Loc(f.decoratorNameToken.start, f.decoratorNameToken.end)]
         IN ProcedureParameterEnd(
                p, [f EXCEPT !.decorators =
                                 Push(@, DecoratorNode(f.decoratorNameToken.value,
                                                       decoratorValue))])

\* a parameter node that drops the declared type
ParameterNodeUntyped(f, paramType, default) ==
    [type |-> "Parameter", name |-> f.parameterNameToken.value, paramType |-> NoNode,
     default |-> default,
     loc |-> Loc(f.parameterNameToken.start,
                 IF default.type # Undefined THEN default.loc.end ELSE paramType.loc.end)]

\* default is NoNode when the parameter has none
ParameterNode(f, paramType, default) ==
    [type |-> "Parameter", name |-> f.parameterNameToken.value, paramType |-> paramType,
     default |-> default,
     loc |-> Loc(f.parameterNameToken.start,
                 IF default.type # Undefined THEN default.loc.end ELSE paramType.loc.end)]

\* parseProcedureDefinition, lines 427-432: the arrow and the call for the return type
ProcedureArrow(p, f) ==
    LET p1 == consume(p, {"Minus"}, {}, "Expected arrow return symbol piece '-'")
        p2 == consume(p1, {"RightChevron"}, {},
                      "Expected arrow return symbol piece '>' after '-'")
    IN Call(p2, [f EXCEPT !.at = "returnType"], FrameTypeAnnotation)

\* parseProcedureDefinition, lines 349-415: a round of the parameter loop, up to
\* its first call
\* a list in which an @ makes the item a decorator again after a parameter
ProcedureParameterAnyOrder(p, f) ==
    LET atSymbol == checkToken(p, "type", {"AtSymbol"})
        identifier == ~atSymbol /\ checkToken(p, "type", {"Identifier"})
        p1 == IF atSymbol THEN ParserAdvance(p)
              ELSE IF identifier THEN p
              ELSE ParserError(p, "Expected decorator or parameter", PeekStart(p))
        parsingDecorators == IF identifier THEN FALSE
                             ELSE IF atSymbol THEN TRUE ELSE f.parsingDecorators
    IN IF parsingDecorators
       THEN LET decoratorNameToken == consumed(p1, {"Identifier"}, {})
                p2 == consume(p1, {"Identifier"}, {}, "Expected decorator name")
                p3 == expect(p2, {"Equals", "Comma"}, {},
                             "Expected '=' or ',' after decorator name")
                f1 == [f EXCEPT !.parsingDecorators = parsingDecorators,
                                !.decoratorNameToken = decoratorNameToken]
            IN IF ~Matches(p2, {"Equals", "Comma"}, {})
               THEN Call(p3, [f1 EXCEPT !.at = "decoratorValue"],
                         FrameSynchronize({"Comma", "Equals", "ParenClose"}, {},
                                          "Failed to parse decorator value"))
               ELSE ProcedureDecoratorValue(p3, f1)
       ELSE LET parameterNameToken == consumed(p1, {"Identifier"}, {})
                p2 == consume(p1, {"Identifier"}, {}, "Expected parameter name")
                p3 == consume(p2, {"Colon"}, {},
                              "Expected ':' after parameter name for type annotation")
            IN Call(p3, [f EXCEPT !.at = "parameterType",
                                  !.parsingDecorators = parsingDecorators,
                                  !.parameterNameToken = parameterNameToken],
                    FrameTypeAnnotation)

ProcedureParameter(p, f) ==
    LET atSymbol == checkToken(p, "type", {"AtSymbol"})
        identifier == ~atSymbol /\ checkToken(p, "type", {"Identifier"})
        p1 == IF atSymbol THEN ParserAdvance(p)
              ELSE IF identifier THEN p
              ELSE ParserError(p, "Expected decorator or parameter", PeekStart(p))
        parsingDecorators == IF identifier THEN FALSE ELSE f.parsingDecorators
    IN IF parsingDecorators
       THEN LET decoratorNameToken == consumed(p1, {"Identifier"}, {})
                p2 == consume(p1, {"Identifier"}, {}, "Expected decorator name")
                p3 == expect(p2, {"Equals", "Comma"}, {},
                             "Expected '=' or ',' after decorator name")
                f1 == [f EXCEPT !.parsingDecorators = parsingDecorators,
                                !.decoratorNameToken = decoratorNameToken]
            IN IF ~Matches(p2, {"Equals", "Comma"}, {})
               THEN Call(p3, [f1 EXCEPT !.at = "decoratorValue"],
                         FrameSynchronize({"Comma", "Equals", "ParenClose"}, {},
                                          "Failed to parse decorator value"))
               ELSE ProcedureDecoratorValue(p3, f1)
       ELSE LET parameterNameToken == consumed(p1, {"Identifier"}, {})
                p2 == consume(p1, {"Identifier"}, {}, "Expected parameter name")
                p3 == consume(p2, {"Colon"}, {},
                              "Expected ':' after parameter name for type annotation")
            IN Call(p3, [f EXCEPT !.at = "parameterType",
                                  !.parsingDecorators = parsingDecorators,
                                  !.parameterNameToken = parameterNameToken],
                    FrameTypeAnnotation)

\* Parser.parseProcedureDefinition
parseProcedureDefinition(p) ==
    LET f == Top(p) IN
    CASE f.at = "start" ->
            LET p1 == consume(p, {"Identifier"}, {"proc"}, "Expected 'proc' keyword")
                nameToken == consumed(p1, {"Identifier"}, {})
                p2 == consume(p1, {"Identifier"}, {}, "Expected procedure name")
                f1 == [f EXCEPT !.nameToken = nameToken]
            IN IF checkToken(p2, "type", {"ParenOpen"})
               THEN Goto(tryConsume(p2, "type", {"ParenOpen"}),
                         [f1 EXCEPT !.at = "parameters"])
               ELSE ProcedureArrow(p2, f1)
      [] f.at = "parameters" ->
            IF ~checkToken(p, "type", {"ParenClose"})
            THEN ProcedureParameter(p, f)
            ELSE ProcedureArrow(consume(p, {"ParenClose"}, {},
                                        "Expected closing parenthesis for parameters"), f)
      [] f.at = "decoratorValue" -> ProcedureDecoratorValue(p, f)
      [] f.at = "decoratorExpression" ->
            ProcedureParameterEnd(
                p, [f EXCEPT !.decorators =
                                 Push(@, DecoratorNode(f.decoratorNameToken.value, p.ret))])
      [] f.at = "parameterType" ->
            IF checkToken(p, "type", {"Equals"})
            THEN Call(tryConsume(p, "type", {"Equals"}),
                      [f EXCEPT !.at = "parameterDefault", !.parameterTypeToken = p.ret],
                      FrameExpression(0))
            ELSE ProcedureParameterEnd(
                     p, [f EXCEPT !.parameters = Push(@, ParameterNode(f, p.ret, NoNode))])
      [] f.at = "parameterDefault" ->
            ProcedureParameterEnd(
                p, [f EXCEPT !.parameters =
                                 Push(@, ParameterNode(f, f.parameterTypeToken, p.ret))])
      [] f.at = "returnType" ->
            Goto(consume(p, {"BraceOpen"}, {},
                         "Expected open curly brace '{' for procedure body"),
                 [f EXCEPT !.at = "body", !.returnType = p.ret])
      [] f.at = "body" ->
            IF ~isAtEnd(p) /\ ~checkToken(p, "type", {"BraceClose"})
            THEN Call(p, [f EXCEPT !.at = "bodyStatement"], FrameStatement)
            ELSE LET p1 == consume(p, {"BraceClose"}, {},
                                   "Expected closing curly brace '}' for procedure body")
                 IN Return(p1, [type |-> "ProcedureDeclaration",
                                name |-> f.nameToken.value,
                                decorators |-> f.decorators, parameters |-> f.parameters,
                                returnType |-> f.returnType, body |-> f.body,
                                loc |-> Loc(f.nameToken.start, PeekEnd(p1))])
      [] f.at = "bodyStatement" ->
            Goto(p, [f EXCEPT !.at = "body", !.body = PushStatement(@, p.ret)])

\* Parser.parseBlockExpression; the array it returns is the body of the record
parseBlockExpression(p) ==
    LET f == Top(p) IN
    CASE f.at = "start" ->
            Goto(consume(p, {"BraceOpen"}, {}, "Expected '{' after method call"),
                 [f EXCEPT !.at = "body"])
      [] f.at = "body" ->
            IF ~isAtEnd(p) /\ ~checkToken(p, "type", {"BraceClose"})
            THEN Call(p, [f EXCEPT !.at = "statement"], FrameStatement)
            ELSE Return(consume(p, {"BraceClose"}, {}, "Expected '}' to close block"),
                        [type |-> "StatementNode[]", body |-> f.body])
      [] f.at = "statement" ->
            Goto(p, [f EXCEPT !.at = "body", !.body = PushStatement(@, p.ret)])

CommentTokenTypes ==
    {"Comment_SingleExpanded", "Comment_SingleCollapsed", "Comment_MultilineExpanded",
     "Comment_MultilineCollapsed"}

ErrorStatement ==
    [type |-> "ErrorStatement", message |-> "Failed to parse statement", loc |-> NoLoc]

HandlerDeclaration(expression, body) ==
    LET first == IF Len(body) > 0 THEN body[1].loc.start ELSE expression.loc.start
        last == IF Len(body) > 0 THEN body[Len(body)].loc.end ELSE expression.loc.end
    IN [type |-> "HandlerDeclaration", call |-> expression,
        body |-> [type |-> "Block", body |-> body, loc |-> Loc(first, last)],
        loc |-> Loc(expression.loc.start, last)]

\* Parser.parseStatement
parseStatement(p) ==
    LET f == Top(p) IN
    CASE f.at = "start" ->
            IF checkToken(p, "value", {"proc"}) THEN Goto(p, FrameProcedure)
            ELSE IF checkToken(p, "value", {"enum"}) THEN Goto(p, FrameEnum)
            ELSE IF checkToken(p, "type", CommentTokenTypes)
                 THEN Return(ParserAdvance(p), NoStatement)
            ELSE IF checkToken(p, "type", {"Identifier"})
                 THEN IF checkToken(p, "value", {"private", "temp", "public"})
                      THEN Goto(p, FrameVariable)
                      ELSE Call(p, [f EXCEPT !.at = "expression"], FrameExpression(0))
            ELSE IF ParserPeek(p).type = Null
                 THEN Throw(p, "TypeError")
                 ELSE Return(ParserAdvance(
                                 ParserError(p, "Unexpected token: Type '"
                                                \o ParserPeek(p).type \o "'",
                                             PeekStart(p))),
                             ErrorStatement)
      [] f.at = "expression" ->
            IF p.ret.type = "CallExpression" /\ checkToken(p, "type", {"BraceOpen"})
            THEN Call(p, [f EXCEPT !.at = "body", !.expression = p.ret], FrameBlock)
            ELSE Return(consume(p, {"Semicolon"}, {},
                                "Expected semicolon at the end of an expression statement"),
                        [type |-> "ExpressionStatement", expression |-> p.ret,
                         loc |-> Loc(p.ret.loc.start, p.ret.loc.end)])
      [] f.at = "body" -> Return(p, HandlerDeclaration(f.expression, p.ret.body))

\* Parser.parseExpression
parseExpression(p) ==
    LET f == Top(p) IN
    CASE f.at = "start" -> Call(p, [f EXCEPT !.at = "left"], FramePrefix)
      [] f.at = "left" -> Goto(p, [f EXCEPT !.at = "loop", !.left = p.ret])
      [] f.at = "loop" ->
            LET token == ParserPeek(p)
                bp == getBindingPower(token)
            IN IF token.type = Null \/ bp.lbp <= f.minBP
               THEN Return(p, f.left)
               ELSE Call(p, [f EXCEPT !.at = "left"], FrameInfix(f.left, bp))

ErrorTokenNode(loc) == [type |-> "ErrorToken", value |-> "", loc |-> loc]

\* Number(text) for the text of a Number token: a digit gives its value; any
\* other text stays the text it is written as
NumberOf(text) ==
    IF text \in Digits THEN [number |-> HexValue(text)] ELSE [numberOf |-> text]

\* a fallback of parsePrefix that returns its error token without a report
PrefixFallbackSilent(p, token) ==
    Return(ParserAdvance(p), ErrorTokenNode(Loc(token.start, token.end)))

\* parsePrefix, lines 654-664: the fallback
PrefixFallback(p, token) ==
    LET unexpectedValue == IF isValuedTokenType(token.type) THEN token.value ELSE ""
        message == "Unexpected token in expression: Type '" \o token.type \o "'"
                   \o (IF unexpectedValue # ""
                       THEN ", Value '" \o unexpectedValue \o "'"
                       ELSE "")
    IN Return(ParserAdvance(ParserError(p, message, token.start)),
              ErrorTokenNode(Loc(token.start, token.end)))

\* parsePrefix, lines 550-665, up to its first call or loop
PrefixStart(p, f) ==
    LET token == ParserPeek(p)
        value == token.type
    IN IF token.type = Null THEN Return(p, ErrorTokenNode(NoLoc))
       ELSE IF value = "Exclamation" \/ value = "Minus"
       THEN LET opKey == IF value = "Minus" THEN "UnaryMinus" ELSE value
            IN Call(ParserAdvance(p), [f EXCEPT !.at = "unary", !.token = token],
                    FrameExpression(bindingPowerTable[opKey].rbp))
       ELSE IF checkToken(p, "type", {"ParenOpen"})
       THEN LET p1 == tryConsume(p, "type", {"ParenOpen"})
            IN IF checkToken(p1, "type", {"ParenClose"})
               THEN Return(ParserAdvance(p1),
                           [type |-> "EmptyExpression",
                            loc |-> Loc(token.start, previous(ParserAdvance(p1)).end)])
               ELSE Call(p1, [f EXCEPT !.at = "paren", !.token = token],
                         FrameExpression(0))
       ELSE IF checkToken(p, "type", {"BracketOpen"})
       THEN Goto(tryConsume(p, "type", {"BracketOpen"}),
                 [f EXCEPT !.at = "list", !.token = token])
       ELSE IF checkToken(p, "type", {"BraceOpen"})
       THEN Goto(tryConsume(p, "type", {"BraceOpen"}),
                 [f EXCEPT !.at = "dict", !.token = token])
       ELSE IF checkToken(p, "type", {"Identifier"})
       THEN LET id == consumed(p, {"Identifier"}, {})
            IN Return(consume(p, {"Identifier"}, {}, "Expected identifier"),
                      [type |-> "Identifier", name |-> id.value,
                       loc |-> Loc(id.start, id.end)])
       ELSE IF checkToken(p, "type", {"String"})
       THEN LET lit == consumed(p, {"String"}, {})
            IN Return(consume(p, {"String"}, {}, "Expected string literal"),
                      [type |-> "Literal", value |-> lit.value, valueType |-> "string",
                       loc |-> Loc(lit.start, lit.end)])
       ELSE IF checkToken(p, "type", {"Number"})
       THEN LET lit == consumed(p, {"Number"}, {})
            IN Return(consume(p, {"Number"}, {}, "Expected number literal"),
                      [type |-> "Literal", value |-> NumberOf(lit.value),
                       valueType |-> "number", loc |-> Loc(lit.start, lit.end)])
       ELSE IF checkToken(p, "type", {"EOF"})
       THEN Return(p, ErrorTokenNode(Loc(token.start, token.end)))
       ELSE PrefixFallback(p, token)

\* Parser.parsePrefix
parsePrefix(p) ==
    LET f == Top(p) IN
    CASE f.at = "start" -> PrefixStart(p, f)
      [] f.at = "unary" ->
            Return(p, [type |-> "UnaryExpression", operator |-> f.token.type,
                       argument |-> p.ret, loc |-> Loc(f.token.start, p.ret.loc.end)])
      [] f.at = "paren" ->
            Return(consume(p, {"ParenClose"}, {},
                           "Expected ')' after parenthesized expression"),
                   p.ret)
      [] f.at = "list" ->
            IF ~checkToken(p, "type", {"Comma", "BracketClose"})
            THEN Call(p, [f EXCEPT !.at = "listElement"], FrameExpression(0))
            ELSE LET p1 == consume(p, {"BracketClose"}, {},
                                   "Expected ']' after list expression")
                 IN Return(p1, [type |-> "ListExpression", elements |-> f.listContents,
                                loc |-> Loc(f.token.start, previous(p1).end)])
      [] f.at = "listElement" ->
            Goto(tryConsume(p, "type", {"Comma"}),
                 [f EXCEPT !.at = "list", !.listContents = Push(@, p.ret)])
      [] f.at = "dict" ->
            IF ~checkToken(p, "type", {"Comma", "BraceClose"})
            THEN Call(p, [f EXCEPT !.at = "dictKey"], FrameExpression(0))
            ELSE LET p1 == consume(p, {"BraceClose"}, {},
                                   "Expected '}' after dictionary expression")
                 IN Return(p1, [type |-> "DictExpression",
                                entries |-> f.dictionaryContents,
                                loc |-> Loc(f.token.start, previous(p1).end)])
      [] f.at = "dictKey" ->
            Call(consume(p, {"Colon"}, {}, "Expected ':' between dictionary key and value"),
                 [f EXCEPT !.at = "dictValue", !.key = p.ret], FrameExpression(0))
      [] f.at = "dictValue" ->
            Goto(tryConsume(p, "type", {"Comma"}),
                 [f EXCEPT !.at = "dict",
                           !.dictionaryContents = Push(@, [key |-> f.key, value |-> p.ret])])

\* parseInfix, lines 691-698: the end of a call's arguments
InfixCallEnd(p, f, args) ==
    LET p1 == consume(p, {"ParenClose"}, {}, "Expected ')' after parameters")
    IN Return(p1, [type |-> "CallExpression", callee |-> f.left, arguments |-> args,
                   loc |-> Loc(f.left.loc.start,
                               IF ParserPeek(p1).type # Null
                               THEN ParserPeek(p1).end
                               ELSE f.token.end)])

\* Parser.parseInfix
parseInfix(p) ==
    LET f == Top(p) IN
    CASE f.at = "start" ->
            LET token == ParserPeek(p)
                f1 == [f EXCEPT !.token = token]
            IN IF token.type = Null
               THEN Return(ParserError(p, "Unexpected end of input in infix expression",
                                       f.left.loc.end),
                           ErrorTokenNode(f.left.loc))
               ELSE IF token.type = "ParenOpen"
               THEN LET p1 == ParserAdvance(p)
                    IN IF ~checkToken(p1, "type", {"ParenClose"})
                       THEN Call(p1, [f1 EXCEPT !.at = "argument"], FrameExpression(0))
                       ELSE InfixCallEnd(p1, f1, <<>>)
               ELSE IF token.type = "Dot"
               THEN LET p1 == ParserAdvance(p)
                        id == consumed(p1, {"Identifier"}, {})
                    IN Return(consume(p1, {"Identifier"}, {},
                                      "Expected property name after '.'"),
                              [type |-> "MemberExpression", object |-> f.left,
                               property |-> [type |-> "Identifier", name |-> id.value,
                                             loc |-> Loc(id.start, id.end)],
                               loc |-> Loc(f.left.loc.start, id.end)])
               ELSE Call(ParserAdvance(p), [f1 EXCEPT !.at = "right"],
                         FrameExpression(f.bp.rbp))
      [] f.at = "argument" ->
            LET args == Push(f.args, p.ret)
            IN IF checkToken(p, "type", {"Comma"})
               THEN Call(tryConsume(p, "type", {"Comma"}), [f EXCEPT !.args = args],
                         FrameExpression(0))
               ELSE InfixCallEnd(p, f, args)
      [] f.at = "right" ->
            Return(p, [type |-> "BinaryExpression",
                       operator |-> IF isValuedTokenType(f.token.type)
                                    THEN f.token.value
                                    ELSE f.token.type,
                       left |-> f.left, right |-> p.ret,
                       loc |-> Loc(f.left.loc.start, p.ret.loc.end)])

\* the method running takes its next step: up to its next call, return or loop round
ParserRun(p) ==
    LET fn == Top(p).fn IN
    CASE fn = "parse" -> parse(p)
      [] fn = "parseStatement" -> parseStatement(p)
      [] fn = "parseProcedureDefinition" -> parseProcedureDefinition(p)
      [] fn = "parseEnumDefinition" -> parseEnumDefinition(p)
      [] fn = "parseVariableDeclaration" -> parseVariableDeclaration(p)
      [] fn = "parseUnionType" -> parseUnionType(p)
      [] fn = "parsePrimaryType" -> parsePrimaryType(p)
      [] fn = "parseExpression" -> parseExpression(p)
      [] fn = "parsePrefix" -> parsePrefix(p)
      [] fn = "parseInfix" -> parseInfix(p)
      [] fn = "parseBlockExpression" -> parseBlockExpression(p)
      [] fn = "synchronize" -> synchronize(p)

(***************************************************************************)
(* The Parser as a state machine.                                          *)
(***************************************************************************)
\* the Parser's fields, its reporter's list and its call stack, as the operators
\* above take them
ParserView ==
    [tokens |-> parserTokens, position |-> parserPosition, errors |-> reporter,
     stack |-> stack, ret |-> ret, status |-> pc]

SetParser(p) ==
    /\ parserTokens' = p.tokens
    /\ parserPosition' = p.position
    /\ reporter' = p.errors
    /\ stack' = p.stack
    /\ ret' = p.ret
    /\ pc' = p.status

\* a parse that takes the new tokens and leaves the cursor where the earlier
\* parse left it
ParseCallKeepCursor(ts) ==
    /\ SetParser([tokens |-> ts, position |-> parserPosition, errors |-> reporter,
                  stack |-> <<FrameParse>>, ret |-> NoNode, status |-> "parsing"])
    /\ UNCHANGED <<lexerVars, cli>>

\* parse(ts) is called on a Parser that shares the reporter: up to the while loop
ParseCall(ts) ==
    /\ SetParser([tokens |-> ts, position |-> 0, errors |-> reporter,
                  stack |-> <<FrameParse>>, ret |-> NoNode, status |-> "parsing"])
    /\ UNCHANGED <<lexerVars, cli>>

\* parse is called with one of `inputs`
Parse(inputs) ==
    /\ pc = "idle"
    /\ \E ts \in inputs : ParseCall(ts)

\* parse is called with what tokenize returned
ParseLexed ==
    /\ pc = "lexed"
    /\ ParseCall(tokens)

\* the Parser takes a step; when parse returns pc is "parsed" and ret the Program,
\* when a method throws pc is "threw"
ParserStep ==
    /\ pc = "parsing"
    /\ SetParser(ParserRun(ParserView))
    /\ UNCHANGED <<lexerVars, cli>>

(***************************************************************************)
(* Source texts: concatenations of at most MaxPieces pieces.               *)
(***************************************************************************)
RECURSIVE Texts(_, _)
Texts(pieces, n) ==
    IF n = 0 THEN {<<>>}
    ELSE LET shorter == Texts(pieces, n - 1)
         IN shorter \cup {t \o p : t \in shorter, p \in pieces}

\* a little of everything: an identifier, a number, white space, operators, a
\* string, a comment, and characters that begin no token
MixedPieces == {<<"a">>, <<"1">>, <<" ">>, <<"\n">>, <<"-">>, <<">">>, <<"=">>, <<".">>,
                <<"\"">>, <<"#">>, <<"$">>, <<"\\">>}

NumberPieces == {<<"1">>, <<"2">>, <<".">>, <<".", "3">>, <<"-">>, <<"+">>, <<"e">>, <<" ">>}

OperatorPieces == {<<">">>, <<"=">>, <<"*">>, <<"-">>, <<"!">>, <<"&">>, <<"<">>,
                   <<"E">>, <<"a">>, <<" ">>}

StringPieces == {<<"\"">>, <<"'">>, <<"a", "b", "c">>, <<"\\">>, <<"\\", "u">>, <<"q">>,
                 <<"n">>, <<"0", "0", "4", "1">>, <<"0", "0">>, <<" ">>}

TokenizeMixed == Tokenize(Texts(MixedPieces, MaxPieces))

TokenizeNumbers == Tokenize(Texts(NumberPieces, MaxPieces))

TokenizeOperators == Tokenize(Texts(OperatorPieces, MaxPieces))

TokenizeStrings == Tokenize(Texts(StringPieces, MaxPieces))

NextMixed == TokenizeMixed \/ LexerStep \/ TokenizeReturn

NextNumbers == TokenizeNumbers \/ LexerStep \/ TokenizeReturn

NextOperators == TokenizeOperators \/ LexerStep \/ TokenizeReturn

NextStrings == TokenizeStrings \/ LexerStep \/ TokenizeReturn

\* one tokenize call on a new Lexer, for each family of source texts
SpecLexer == Init /\ [][NextMixed]_vars

SpecNumbers == Init /\ [][NextNumbers]_vars

SpecOperators == Init /\ [][NextOperators]_vars

SpecStrings == Init /\ [][NextStrings]_vars

(***************************************************************************)
(* Token sequences for the Parser: the kinds of at most MaxTokenPieces     *)
(* pieces, each token one column wide on line 1, with or without the      *)
(* end-of-input token the Parser looks for.                                *)
(***************************************************************************)
Unit(type) == [type |-> type]

Valued(type, value) == [type |-> type, value |-> value]

RECURSIVE Located(_)
Located(kinds) ==
    IF kinds = <<>> THEN <<>>
    ELSE LET n == Len(kinds)
             kind == kinds[n]
             start == Pos(1, n)
             end == Pos(1, n + 1)
         IN Append(Located(SubSeq(kinds, 1, n - 1)),
                   IF isValuedTokenType(kind.type)
                   THEN [type |-> kind.type, value |-> kind.value,
                         start |-> start, end |-> end]
                   ELSE [type |-> kind.type, start |-> start, end |-> end])

\* the heads of an enum, a procedure and a variable declaration with a generic
\* type, and the single tokens that open, close, separate and fill them
TokenPieces ==
    {<<Valued("Identifier", "enum"), Valued("Identifier", "a"), Unit("BraceOpen")>>,
     <<Valued("Identifier", "proc"), Valued("Identifier", "a"), Unit("ParenOpen")>>,
     <<Valued("Identifier", "temp"), Valued("Identifier", "a"), Unit("Colon"),
       Valued("Identifier", "a"), Unit("LeftChevron")>>,
     <<Valued("Identifier", "a")>>, <<Valued("Number", "1")>>,
     <<Unit("ParenOpen")>>, <<Unit("ParenClose")>>,
     <<Unit("BracketOpen")>>, <<Unit("BracketClose")>>,
     <<Unit("BraceOpen")>>, <<Unit("BraceClose")>>,
     <<Unit("Comma")>>, <<Unit("Semicolon")>>, <<Unit("AtSymbol")>>,
     <<Unit("Minus")>>, <<Unit("RightChevron")>>, <<Unit("Equals")>>}

EndOfInput == <<Unit("EOF")>>

\* the sequences of at most n pieces, each with and without the end-of-input token
TokenInputs(n) ==
    LET kinds == Texts(TokenPieces, n)
    IN {Located(k) : k \in kinds} \cup {Located(k \o EndOfInput) : k \in kinds}

\* statements and declarations the grammar accepts: an expression statement, a
\* call, an enum, a variable declaration, a procedure and a handler
ValidPieces ==
    {<<"a", ";">>,
     <<"a", "(", "1", ")", ";">>,
     <<"e", "n", "u", "m", " ", "a", "{", "b", "}">>,
     <<"t", "e", "m", "p", " ", "a", ":", "a", "=", "1", ";">>,
     <<"p", "r", "o", "c", " ", "a", "(", ")", "-", ">", "a", "{", "}">>,
     <<"a", "(", ")", "{", "}">>}

\* the programs of one to n of them
ValidSources(n) == Texts(ValidPieces, n) \ {<<>>}

ParseTokenInputs == Parse(TokenInputs(MaxTokenPieces))

TokenizeValid == Tokenize(ValidSources(MaxPrograms))

NextParser == ParseTokenInputs \/ ParserStep

NextPipeline == TokenizeValid \/ LexerStep \/ TokenizeReturn \/ ParseLexed \/ ParserStep

\* one parse call on a new Parser, for each token sequence
SpecParser == Init /\ [][NextParser]_vars

\* tokenize and then parse with the same reporter, as compile does
SpecPipeline == Init /\ [][NextPipeline]_vars

(***************************************************************************)
(* Properties of the lexer.                                                *)
(***************************************************************************)
\* the source text a tokenize call on `text` works on
Sentinelled(text) == text \o <<EOT>>

\* the tokens that are not end-of-input tokens
NonEOF(ts) == SelectSeq(ts, LAMBDA tk : tk.type # "<EOF>")

TokenTypes(ts) == [i \in 1..Len(ts) |-> ts[i].type]

\* C1: tokenize terminates on every source text.  A round of the while loop
\* reads only the Lexer's fields, so a round that leaves all of them as they
\* were is followed by the same round for ever: every round must change one.
C1_EveryRoundProgresses ==
    [][(pc = "lexing" /\ pc' = "lexing") => lexerVars' # lexerVars]_vars

\* C5: the sequence tokenize returns is not empty and ends with the
\* end-of-input token.
C5_EndsWithEOF ==
    pc = "lexed" => (tokens # <<>> /\ tokens[Len(tokens)].type = "<EOF>")

\* a source text whose sentinel is swallowed by a string or a comment
C5_Witness ==
    /\ pc = "lexed"
    /\ Len(tokens) = 1
    /\ Len(src) > 1

\* the longest operator of the table that is a prefix of `text` (<<>> if none)
LongestOperatorPrefix(text) ==
    LET fits == {op \in UnitTokenType :
                    Len(op) <= Len(text) /\ SubSeq(text, 1, Len(op)) = op}
    IN IF fits = {} THEN <<>>
       ELSE CHOOSE op \in fits : \A other \in fits : Len(other) <= Len(op)

\* the tokens a tokenize call on `text` has returned are of the types `types`,
\* the end-of-input tokens aside
Yields(text, types) ==
    (pc = "lexed" /\ src = Sentinelled(text)) => TokenTypes(NonEOF(tokens)) = types

\* C6: maximal munch.  When the Operator state emits a token, it is the longest
\* operator of the table that is a prefix of the input from where the operator
\* began (in these source texts the buffer holds what was read since then);
\* ">=", "**=", "->" and "!&" give one token each.
C6_MaximalMunch ==
    /\ [][(pc = "lexing" /\ currentState = "Operator" /\ Len(tokens') > Len(tokens)) =>
            /\ Len(tokens') = Len(tokens) + 1
            /\ tokens'[Len(tokens')].type =
                 Join(LongestOperatorPrefix(
                        SubSeq(src, position - Len(buffer) + 1, Len(src))))]_vars
    /\ [](/\ Yields(<<">", "=">>, <<">=">>)
          /\ Yields(<<"*", "*", "=">>, <<"**=">>)
          /\ Yields(<<"-", ">">>, <<"->">>)
          /\ Yields(<<"!", "&">>, <<"!&">>))

\* "**=" has been lexed as one token
C6_Witness ==
    /\ pc = "lexed"
    /\ src = Sentinelled(<<"*", "*", "=">>)
    /\ TokenTypes(NonEOF(tokens)) = <<"**=">>

UnterminatedStringErrors ==
    SelectSeq(reporter, LAMBDA e : e.message = "Unterminated string literal")

\* C7: when the input ends inside a string literal, tokenize has recorded
\* exactly one "unterminated string" diagnostic as it returns.
C7_UnterminatedStringReported ==
    [][(pc = "lexing" /\ pc' = "lexed" /\ currentState \in {"String", "EscapedString"}) =>
          Len(UnterminatedStringErrors') = 1]_vars

\* the text of the first token, a String, is `inner`, with or without its quotes
FirstStringIs(inner) ==
    /\ tokens # <<>>
    /\ tokens[1].type = "String"
    /\ tokens[1].value \in {inner, "\"" \o inner \o "\""}

\* C8: in the text of a String token an escape is replaced by the character it
\* denotes and the backslash is not kept: "\u0041" gives A, "\n" the newline,
\* and "\q" gives q without a diagnostic.
C8_EscapesReplaced ==
    pc = "lexed" =>
        /\ src = Sentinelled(<<"\"", "\\", "q", "\"">>) =>
              (FirstStringIs("q") /\ reporter = <<>>)
        /\ src = Sentinelled(<<"\"", "\\", "n", "\"">>) => FirstStringIs("\n")
        /\ src = Sentinelled(<<"\"", "\\", "u", "0", "0", "4", "1", "\"">>) =>
              FirstStringIs("A")

MultipleDecimalPoints == "Invalid number format: Multiple decimal points"

\* C9: a second decimal point in a number records one diagnostic, emits the
\* number collected so far and is not consumed by it; for "1.2.3" the tokens
\* are Number 1.2 and, lexed from Start, Number .3, with that one diagnostic.
C9_SecondDecimalPoint ==
    /\ [][(/\ pc = "lexing"
           /\ currentState = "Number"
           /\ Peek(LexerView, 0) = "."
           /\ Includes(buffer, ".")) =>
            /\ Len(reporter') = Len(reporter) + 1
            /\ reporter'[Len(reporter')].message = MultipleDecimalPoints
            /\ Len(tokens') = Len(tokens) + 1
            /\ tokens'[Len(tokens')].type = "Number"
            /\ tokens'[Len(tokens')].value = Join(buffer)
            /\ position' = position
            /\ currentState' = "Start"]_vars
    /\ []((pc = "lexed" /\ src = Sentinelled(<<"1", ".", "2", ".", "3">>)) =>
            /\ TokenTypes(NonEOF(tokens)) = <<"Number", "Number">>
            /\ tokens[1].value = "1.2"
            /\ tokens[2].value = ".3"
            /\ Len(reporter) = 1
            /\ reporter[1].message = MultipleDecimalPoints)

\* "1.2.3" has been lexed, with its diagnostic
C9_Witness ==
    /\ pc = "lexed"
    /\ src = Sentinelled(<<"1", ".", "2", ".", "3">>)
    /\ Len(reporter) = 1
    /\ Len(tokens) >= 2

\* C10: a sign is part of a Number only right after the exponent marker; in
\* every other position it is an operator token: "1-2" is Number, "-", Number.
C10_SignOnlyAfterExponent ==
    /\ currentState = "Number" =>
          \A i \in 1..Len(buffer) :
              buffer[i] \in {"+", "-"} => (i > 1 /\ buffer[i - 1] \in {"e", "E"})
    /\ Yields(<<"1", "-", "2">>, <<"Number", "-", "Number">>)

(***************************************************************************)
(* Properties of the parser.                                               *)
(***************************************************************************)
\* the sequence handed to parse ends with the end-of-input token
EndsWithEOF(ts) == ts # <<>> /\ ts[Len(ts)].type = "EOF"

\* where the Parser is: each running method and the place it is at
ControlStack(st) == [i \in DOMAIN st |-> <<st[i].fn, st[i].at>>]

\* C2: parse terminates on every token sequence that ends with the end-of-input
\* token.  A step that leaves every running method where it was is a round of a
\* loop; what the round does next depends on the cursor alone, so a round that
\* does not move the cursor is repeated forever.  Hence: every such round of a
\* parse call on a sequence ending with EOF moves the cursor forward.
C2_EveryRoundAdvances ==
    [][(/\ pc = "parsing" /\ pc' = "parsing"
        /\ EndsWithEOF(parserTokens)
        /\ ControlStack(stack') = ControlStack(stack))
       => parserPosition' > parserPosition]_vars

\* C3: parse never throws: no step of a parse call, on any token sequence (the
\* empty one and those without an end-of-input token included), ends the call
\* with an exception.
C3_ParseNeverThrows == pc # "threw"

ErrorNodeTypes == {"ErrorStatement", "ErrorToken"}

Some(list, Test(_)) == \E i \in DOMAIN list : Test(list[i])

RECURSIVE HasErrorNode(_)
\* the tree under node holds an error statement or an error token node
HasErrorNode(node) ==
    LET type == node.type IN
    CASE type \in ErrorNodeTypes -> TRUE
      [] type = "Program" -> Some(node.body, HasErrorNode)
      [] type = "ExpressionStatement" -> HasErrorNode(node.expression)
      [] type = "VariableDeclaration" -> HasErrorNode(node.initializer)
      [] type = "HandlerDeclaration" ->
            HasErrorNode(node.call) \/ Some(node.body.body, HasErrorNode)
      [] type = "ProcedureDeclaration" ->
            \/ Some(node.decorators, HasErrorNode)
            \/ Some(node.parameters, HasErrorNode)
            \/ Some(node.body, HasErrorNode)
      [] type = "Decorator" -> HasErrorNode(node.value)
      [] type = "Parameter" -> HasErrorNode(node.default)
      [] type = "UnaryExpression" -> HasErrorNode(node.argument)
      [] type = "BinaryExpression" -> HasErrorNode(node.left) \/ HasErrorNode(node.right)
      [] type = "CallExpression" ->
            HasErrorNode(node.callee) \/ Some(node.arguments, HasErrorNode)
      [] type = "MemberExpression" -> HasErrorNode(node.object)
      [] type = "ListExpression" -> Some(node.elements, HasErrorNode)
      [] type = "DictExpression" ->
            \E i \in DOMAIN node.entries :
                HasErrorNode(node.entries[i].key) \/ HasErrorNode(node.entries[i].value)
      [] OTHER -> FALSE

\* C4: for a source that is a valid program, tokenize and then parse report no
\* diagnostic, and the tree parse returns holds no error node.
C4_ValidProgramParsesClean ==
    /\ reporter = <<>>
    /\ pc = "parsed" => ~HasErrorNode(ret)

(***************************************************************************)
(* Comments.                                                               *)
(***************************************************************************)
\* a comment of each type with its end, text, a newline and a blank
CommentPieces ==
    {<<"#">>, <<"#", "!">>, <<"#", "[">>, <<"]", "#">>, <<"#", "*">>, <<"#", "<">>,
     <<">", "#">>, <<"a">>, <<"b">>, <<" ">>, <<"\n">>}

TokenizeComments == Tokenize(Texts(CommentPieces, MaxPieces))

NextComments == TokenizeComments \/ LexerStep \/ TokenizeReturn

SpecComments == Init /\ [][NextComments]_vars

\* new Lexer(reporter) with a new ErrorReporter
NewLexer ==
    [src |-> <<>>, position |-> 0, line |-> 1, lineStart |-> 0, col |-> 1,
     colStart |-> 1, currentState |-> "Start", buffer |-> <<>>, stringQuote |-> Null,
     commentType |-> "", operatorNode |-> NullNode,
     lastValidOperatorNode |-> NoLastValid, tokens |-> <<>>,
     returned |-> NothingReturned, errors |-> <<>>]

RECURSIVE TokenizeLoop(_)
\* the while loop of tokenize and what follows it
TokenizeLoop(s) ==
    IF s.position < Len(s.src) /\ Peek(s, 0) # Null
    THEN TokenizeLoop(ProcessChar(s, Peek(s, 0)))
    ELSE TokenizeEnd(s)

\* what tokenize(raw) returns on a new Lexer
tokenize(raw) == TokenizeLoop(TokenizeReset(NewLexer, raw)).tokens

\* the source text the running tokenize call was given (these texts hold no
\* carriage return and no U+0004)
Raw == SubSeq(src, 1, Len(src) - 1)

\* the kind and the text of each token
KindsAndTexts(ts) ==
    [i \in 1..Len(ts) |->
        IF isValuedTokenType(ts[i].type) THEN <<ts[i].type, ts[i].value>>
        ELSE <<ts[i].type>>]

\* the least index from `from` on where Test holds, 0 when there is none
FirstIndex(text, from, Test(_)) ==
    LET found == {i \in from..Len(text) : Test(i)}
    IN IF found = {} THEN 0 ELSE CHOOSE i \in found : \A j \in found : i <= j

\* text begins with an ignored comment that is closed: the index of the
\* comment's last character ("#! ..." ends before its newline, "#[ ... ]#" with
\* its "]#"), 0 when text does not begin so
IgnoredCommentEnd(text) ==
    IF Len(text) < 2 \/ text[1] # "#" THEN 0
    ELSE IF text[2] = "!"
    THEN LET newline == FirstIndex(text, 3, LAMBDA i : text[i] = "\n")
         IN IF newline = 0 THEN 0 ELSE newline - 1
    ELSE IF text[2] = "["
    THEN LET close == FirstIndex(text, 3,
                                 LAMBDA i : i < Len(text) /\ text[i] = "]"
                                            /\ text[i + 1] = "#")
         IN IF close = 0 THEN 0 ELSE close + 1
    ELSE 0

\* text with its first n characters replaced by blanks
Blanked(text, n) == [i \in 1..Len(text) |-> IF i <= n THEN " " ELSE text[i]]

\* C11: an ignored comment contributes nothing: the tokens of a source that
\* begins with one have the kinds and texts of the tokens of the source with
\* the comment replaced by blanks.
C11_IgnoredCommentIsWhitespace ==
    (pc = "lexed" /\ IgnoredCommentEnd(Raw) > 0) =>
        KindsAndTexts(tokens) = KindsAndTexts(tokenize(Blanked(Raw, IgnoredCommentEnd(Raw))))

\* the characters that select a comment type after "#"
CommentTypeChars == {"*", "!", "<", ">", "["}

\* text begins with a "#" that none of CommentTypeChars follows and holds a
\* newline after it: the index of the first such newline, 0 otherwise
PlainCommentNewline(text) ==
    IF Len(text) < 2 \/ text[1] # "#" \/ text[2] \in CommentTypeChars THEN 0
    ELSE FirstIndex(text, 2, LAMBDA i : text[i] = "\n")

\* C12: a "#" that no comment type character follows gives one single-line
\* expanded comment token with the trimmed text between the "#" and the first
\* newline, and what follows that newline is lexed as it is on its own, also
\* when the newline is the character right after the "#".
C12_PlainCommentEndsAtNewline ==
    LET n == PlainCommentNewline(Raw) IN
    (pc = "lexed" /\ n > 0) =>
        KindsAndTexts(tokens) =
            <<<<"Comment_SingleExpanded", Join(Trim(SubSeq(Raw, 2, n - 1)))>>>>
            \o KindsAndTexts(tokenize(SubSeq(Raw, n + 1, Len(Raw))))

(***************************************************************************)
(* Expressions: one expression statement of identifiers and the operators  *)
(* of the binding power table, ended by a semicolon and the end-of-input   *)
(* token.                                                                  *)
(***************************************************************************)
\* the keys of the table that parseInfix takes as binary operators
BinaryOperators ==
    DOMAIN bindingPowerTable \ {"Exclamation", "UnaryMinus", "Dot", "ParenOpen"}

\* the token types parsePrefix takes as unary operators
UnaryOperators == {"Minus", "Exclamation"}

Statement(kinds) == Located(kinds \o <<Unit("Semicolon")>> \o EndOfInput)

\* a op1 b op2 c ;
ChainInputs ==
    {Statement(<<Valued("Identifier", "a"), Unit(op1), Valued("Identifier", "b"),
                 Unit(op2), Valued("Identifier", "c")>>) :
        op1 \in BinaryOperators, op2 \in BinaryOperators}

\* a unary operator in an argument, a statement beginning with an identifier only:
\* f ( u a op b ) ;   f ( u a . b ) ;   f ( u g ( x ) ) ;
Argument(kinds) ==
    Statement(<<Valued("Identifier", "f"), Unit("ParenOpen")>> \o kinds
              \o <<Unit("ParenClose")>>)

UnaryInputs ==
    {Argument(<<Unit(u), Valued("Identifier", "a"), Unit(op), Valued("Identifier", "b")>>) :
        u \in UnaryOperators, op \in BinaryOperators \cup {"Dot"}}
    \cup {Argument(<<Unit(u), Valued("Identifier", "g"), Unit("ParenOpen"),
                     Valued("Identifier", "x"), Unit("ParenClose")>>) :
            u \in UnaryOperators}

ParseExpressions == Parse(ChainInputs \cup UnaryInputs)

NextExpressions == ParseExpressions \/ ParserStep

\* one parse call on a new Parser, for each expression statement
SpecExpressions == Init /\ [][NextExpressions]_vars

(***************************************************************************)
(* Properties of expressions.                                              *)
(***************************************************************************)
\* the shapes of expression nodes, without their locations
Id(name) == [id |-> name]

Bin(op, left, right) == [binary |-> op, left |-> left, right |-> right]

Un(op, argument) == [unary |-> op, argument |-> argument]

Mem(object, property) == [object |-> object, property |-> property]

CallOf(callee, arguments) == [callee |-> callee, arguments |-> arguments]

RECURSIVE Shape(_)
Shape(node) ==
    CASE node.type = "Identifier" -> Id(node.name)
      [] node.type = "BinaryExpression" ->
            Bin(node.operator, Shape(node.left), Shape(node.right))
      [] node.type = "UnaryExpression" -> Un(node.operator, Shape(node.argument))
      [] node.type = "MemberExpression" -> Mem(Shape(node.object), node.property.name)
      [] node.type = "CallExpression" ->
            CallOf(Shape(node.callee),
                   [i \in DOMAIN node.arguments |-> Shape(node.arguments[i])])
      [] OTHER -> [type |-> node.type]

\* parse returned a Program of one expression statement
ParsedExpression ==
    /\ pc = "parsed"
    /\ Len(ret.body) = 1
    /\ ret.body[1].type = "ExpressionStatement"

\* the expression of that statement
TheExpression == Shape(ret.body[1].expression)

TypesOf(ts) == [i \in DOMAIN ts |-> ts[i].type]

\* the tokens are  a op b op c ;  with the same binary operator twice
IsChain(ts) ==
    /\ Len(ts) = 7
    /\ ts[2].type \in BinaryOperators
    /\ TypesOf(ts) = <<"Identifier", ts[2].type, "Identifier", ts[2].type, "Identifier",
                       "Semicolon", "EOF">>

\* C13: a op b op c parses as op(op(a, b), c) for every binary operator of the
\* table except Power, and a ** b ** c as Power(a, Power(b, c))
C13_Associativity ==
    (pc = "parsed" /\ IsChain(parserTokens)) =>
        LET ts == parserTokens
            op == ts[2].type
            a == Id(ts[1].value)
            b == Id(ts[3].value)
            c == Id(ts[5].value)
        IN /\ ParsedExpression
           /\ TheExpression = IF op = "Power"
                              THEN Bin(op, a, Bin(op, b, c))
                              ELSE Bin(op, Bin(op, a, b), c)

\* the tokens are  f ( u a op b ) ;  with a unary operator u
IsUnaryBinary(ts) ==
    /\ Len(ts) = 9
    /\ ts[3].type \in UnaryOperators
    /\ ts[5].type \in BinaryOperators
    /\ TypesOf(ts) = <<"Identifier", "ParenOpen", ts[3].type, "Identifier", ts[5].type,
                       "Identifier", "ParenClose", "Semicolon", "EOF">>

\* the tokens are  f ( u a . b ) ;
IsUnaryMember(ts) ==
    /\ Len(ts) = 9
    /\ ts[3].type \in UnaryOperators
    /\ TypesOf(ts) = <<"Identifier", "ParenOpen", ts[3].type, "Identifier", "Dot",
                       "Identifier", "ParenClose", "Semicolon", "EOF">>

\* the tokens are  f ( u g ( x ) ) ;
IsUnaryCall(ts) ==
    /\ Len(ts) = 10
    /\ ts[3].type \in UnaryOperators
    /\ TypesOf(ts) = <<"Identifier", "ParenOpen", ts[3].type, "Identifier", "ParenOpen",
                       "Identifier", "ParenClose", "ParenClose", "Semicolon", "EOF">>

\* parse returned the statement f(e); with one argument of the shape `argument`
ParsedArgument(argument) ==
    /\ ParsedExpression
    /\ TheExpression = CallOf(Id(parserTokens[1].value), <<argument>>)

\* u a . b is Unary(u, Member(a, b)) and u g(x) is Unary(u, Call(g, x))
UnaryLooserThanAccess ==
    LET ts == parserTokens IN
    /\ (pc = "parsed" /\ IsUnaryMember(ts)) =>
            ParsedArgument(Un(ts[3].type, Mem(Id(ts[4].value), ts[6].value)))
    /\ (pc = "parsed" /\ IsUnaryCall(ts)) =>
            ParsedArgument(Un(ts[3].type, CallOf(Id(ts[4].value), <<Id(ts[6].value)>>)))

\* u a op b is op(Unary(u, a), b) for the binary operators in `tighterThan`
UnaryTighterThan(tighterThan) ==
    LET ts == parserTokens IN
    (pc = "parsed" /\ IsUnaryBinary(ts) /\ ts[5].type \in tighterThan) =>
        ParsedArgument(Bin(ts[5].type, Un(ts[3].type, Id(ts[4].value)), Id(ts[6].value)))

\* C14 as stated: unary - and ! bind tighter than every binary operator of the
\* table, -a op b being op(Unary(-, a), b), and looser than call and member access
C14_UnaryTighterThanEveryBinary ==
    UnaryTighterThan(BinaryOperators) /\ UnaryLooserThanAccess

\* C14: unary - and ! bind tighter than every binary operator of the table but
\* Power: -a op b is op(Unary(-, a), b) and -a ** b is Unary(-, Power(a, b));
\* call and member access bind tighter than unary
C14_UnaryTighterThanAllButPower ==
    LET ts == parserTokens IN
    /\ UnaryTighterThan(BinaryOperators \ {"Power"})
    /\ (pc = "parsed" /\ IsUnaryBinary(ts) /\ ts[5].type = "Power") =>
            ParsedArgument(Un(ts[3].type, Bin("Power", Id(ts[4].value), Id(ts[6].value))))
    /\ UnaryLooserThanAccess

\* f(-a + b); has been parsed
C14_Witness ==
    /\ pc = "parsed"
    /\ IsUnaryBinary(parserTokens)
    /\ parserTokens[3].type = "Minus"
    /\ parserTokens[5].type = "Plus"
    /\ ParsedExpression
    /\ reporter = <<>>

(***************************************************************************)
(* Statements: expression statements, handlers, blocks and comments, of at *)
(* most MaxTokenPieces pieces, ended by the end-of-input token.            *)
(***************************************************************************)
\* an identifier, a call, the head of a handler, an expression statement, the
\* tokens that open, close and separate, and comments of the four types the
\* lexer emits, two of them with the text of a keyword
StatementPieces ==
    {<<Valued("Identifier", "a")>>,
     <<Valued("Identifier", "a"), Unit("ParenOpen"), Unit("ParenClose")>>,
     <<Valued("Identifier", "a"), Unit("ParenOpen"), Unit("ParenClose"), Unit("BraceOpen")>>,
     <<Valued("Identifier", "b"), Unit("Semicolon")>>,
     <<Unit("BraceOpen")>>, <<Unit("BraceClose")>>, <<Unit("Semicolon")>>,
     <<Unit("ParenClose")>>,
     <<Valued("Comment_SingleExpanded", "x")>>,
     <<Valued("Comment_MultilineCollapsed", "x")>>,
     <<Valued("Comment_SingleCollapsed", "proc")>>,
     <<Valued("Comment_MultilineExpanded", "enum")>>}

StatementInputs(n) == {Located(k \o EndOfInput) : k \in Texts(StatementPieces, n)}

ParseStatements == Parse(StatementInputs(MaxTokenPieces))

NextStatements == ParseStatements \/ ParserStep

\* one parse call on a new Parser, for each sequence of statement pieces
SpecStatements == Init /\ [][NextStatements]_vars
(***************************************************************************)
(* Properties of statements.                                               *)
(***************************************************************************)
\* parseStatement has just been called
AtStatement(p) ==
    /\ p.status = "parsing"
    /\ Top(p).fn = "parseStatement"
    /\ Top(p).at = "start"

\* there is a current token, it is not the end-of-input token, and none of the
\* tests parseStatement dispatches on holds of it
NoDispatchRule(p) ==
    /\ ParserPeek(p).type \notin {Null, "EOF"}
    /\ ~checkToken(p, "value", {"proc", "enum"})
    /\ ~checkToken(p, "type", CommentTokenTypes \cup {"Identifier"})

\* C15: when the current token, not the end-of-input token, matches no dispatch
\* rule, parseStatement records exactly one "Unexpected token" diagnostic, moves
\* the cursor forward by exactly one token and returns an ErrorStatement
C15_UnexpectedTokenStatement ==
    [][(AtStatement(ParserView) /\ NoDispatchRule(ParserView) /\ Len(reporter) < MaxErrors)
       => /\ reporter' = Append(reporter,
                                KatnipError("Parser",
                                            "Unexpected token: Type '"
                                                \o ParserPeek(ParserView).type \o "'",
                                            ParserPeek(ParserView).start))
          /\ parserPosition' = parserPosition + 1
          /\ parserTokens' = parserTokens
          /\ stack' = Callers(ParserView)
          /\ ret' = ErrorStatement]_vars

\* parseStatement has returned an ErrorStatement for a first token ) and parse
\* has gone on to the next statement
C15_Witness ==
    /\ pc = "parsing"
    /\ parserTokens # <<>>
    /\ parserTokens[1].type = "ParenClose"
    /\ parserPosition = 1
    /\ ret = ErrorStatement
    /\ Len(reporter) = 1
    /\ reporter[1].message = "Unexpected token: Type 'ParenClose'"

\* parseExpression has returned to the identifier branch of parseStatement
AtExpressionStatement(p) ==
    /\ p.status = "parsing"
    /\ Top(p).fn = "parseStatement"
    /\ Top(p).at = "expression"

\* parseBlockExpression has returned to the handler branch of parseStatement
AtHandlerBody(p) ==
    /\ p.status = "parsing"
    /\ Top(p).fn = "parseStatement"
    /\ Top(p).at = "body"

\* the expression parsed is a call and the current token is {
CallThenBrace(p) == p.ret.type = "CallExpression" /\ ParserPeek(p).type = "BraceOpen"

SemicolonExpected == "Expected semicolon at the end of an expression statement"

\* C16: when the expression of an identifier-led statement is a call and the
\* current token is {, parseStatement parses the block and returns a
\* HandlerDeclaration of that call and the block's statements, consuming no
\* separator and recording no diagnostic of its own; in every other case it
\* returns an ExpressionStatement of the expression, a ; is consumed when it is
\* the current token, and otherwise exactly one diagnostic is recorded
C16_HandlerOrExpressionStatement ==
    [][LET p == ParserView
           f == Top(p)
       IN /\ (AtExpressionStatement(p) /\ CallThenBrace(p)) =>
                /\ stack' = Append(Append(Callers(p),
                                          [f EXCEPT !.at = "body", !.expression = ret]),
                                   FrameBlock)
                /\ reporter' = reporter
                /\ parserPosition' = parserPosition
          /\ AtHandlerBody(p) =>
                /\ stack' = Callers(p)
                /\ ret'.type = "HandlerDeclaration"
                /\ ret'.call = f.expression
                /\ ret'.body.type = "Block"
                /\ ret'.body.body = ret.body
                /\ reporter' = reporter
                /\ parserPosition' = parserPosition
          /\ (AtExpressionStatement(p) /\ ~CallThenBrace(p)) =>
                /\ stack' = Callers(p)
                /\ ret'.type = "ExpressionStatement"
                /\ ret'.expression = ret
                /\ IF ParserPeek(p).type = "Semicolon"
                   THEN /\ parserPosition' = parserPosition + 1
                        /\ reporter' = reporter
                   ELSE /\ parserPosition' = parserPosition
                        /\ Len(reporter) < MaxErrors =>
                              /\ Len(reporter') = Len(reporter) + 1
                              /\ SubSeq(reporter', 1, Len(reporter)) = reporter
                              /\ reporter'[Len(reporter')].message = SemicolonExpected]_vars

\* a() { a }  has been parsed: a handler, for which nothing is recorded, with one
\* expression statement in its block, whose missing ; is the one diagnostic
C16_Witness ==
    /\ pc = "parsed"
    /\ Len(ret.body) = 1
    /\ ret.body[1].type = "HandlerDeclaration"
    /\ ret.body[1].call.type = "CallExpression"
    /\ Len(ret.body[1].body.body) = 1
    /\ ret.body[1].body.body[1].type = "ExpressionStatement"
    /\ Len(reporter) = 1
    /\ reporter[1].message = SemicolonExpected

\* C17: a comment token at statement position is skipped, whatever its text:
\* parseStatement consumes exactly that token, returns no node and records no
\* diagnostic
C17_CommentSkipped ==
    [][(AtStatement(ParserView) /\ ParserPeek(ParserView).type \in CommentTokenTypes)
       => /\ parserPosition' = parserPosition + 1
          /\ stack' = Callers(ParserView)
          /\ ret' = NoStatement
          /\ reporter' = reporter]_vars

(***************************************************************************)
(* Declarations: enums of one to MaxMembers members, and procedures of at  *)
(* most MaxMembers parameters with or without the comma between two of     *)
(* them, each ended by the end-of-input token.                             *)
(***************************************************************************)
Name(value) == <<Valued("Identifier", value)>>

MemberNames == {"Red", "Green"}

\* M1 , ... , Mk  for k from 1 to n
RECURSIVE MemberLists(_)
MemberLists(n) ==
    IF n = 1 THEN {Name(member) : member \in MemberNames}
    ELSE LET shorter == MemberLists(n - 1)
         IN shorter \cup {l \o <<Unit("Comma")>> \o Name(member) :
                            l \in shorter, member \in MemberNames}

\* enum NAME { M1 , ... , Mk }
EnumInputs(n) ==
    {Located(Name("enum") \o Name(name) \o <<Unit("BraceOpen")>> \o l
             \o <<Unit("BraceClose")>> \o EndOfInput) :
        name \in {"Color", "enum"}, l \in MemberLists(n)}

ParameterNames == {"a", "b"}

TypeNames == {"Number", "String"}

\* name : Type
Parameter(name, typeName) == Name(name) \o <<Unit("Colon")>> \o Name(typeName)

\* at most n parameters, each but the first with or without a comma before it
RECURSIVE ParameterLists(_)
ParameterLists(n) ==
    IF n = 0 THEN {<<>>}
    ELSE LET shorter == ParameterLists(n - 1)
         IN shorter
            \cup {l \o (IF l = <<>> THEN <<>> ELSE separator) \o Parameter(name, typeName) :
                    l \in shorter, separator \in {<<>>, <<Unit("Comma")>>},
                    name \in ParameterNames, typeName \in TypeNames}

\* proc f ( parameters ) - > Number { }
ProcedureInputs(n) ==
    {Located(Name("proc") \o Name("f") \o <<Unit("ParenOpen")>> \o l
             \o <<Unit("ParenClose"), Unit("Minus"), Unit("RightChevron")>>
             \o Name("Number") \o <<Unit("BraceOpen"), Unit("BraceClose")>> \o EndOfInput) :
        l \in ParameterLists(n)}

ParseDeclarations == Parse(EnumInputs(MaxMembers) \cup ProcedureInputs(MaxMembers))

NextDeclarations == ParseDeclarations \/ ParserStep

\* one parse call on a new Parser, for each declaration
SpecDeclarations == Init /\ [][NextDeclarations]_vars

(***************************************************************************)
(* Properties of declarations.                                             *)
(***************************************************************************)
\* the number of members of  enum NAME { M1 , ... , Mk }  with its end-of-input token
MemberCount(ts) == (Len(ts) - 4) \div 2

\* the tokens are  enum NAME { M1 , ... , Mk }  with k >= 1
IsEnum(ts) ==
    LET k == MemberCount(ts) IN
    /\ Len(ts) >= 6
    /\ Len(ts) = 2 * k + 4
    /\ ts[1].type = "Identifier" /\ ts[1].value = "enum"
    /\ ts[2].type = "Identifier"
    /\ ts[3].type = "BraceOpen"
    /\ \A i \in 1..k : ts[2 + 2 * i].type = "Identifier"
    /\ \A i \in 1..(k - 1) : ts[3 + 2 * i].type = "Comma"
    /\ ts[2 * k + 3].type = "BraceClose"
    /\ ts[2 * k + 4].type = "EOF"

\* C18: for the tokens of enum NAME { M1 , ... , Mk } with k >= 1, parse yields
\* exactly one EnumDeclaration with that name and the members M1..Mk in source
\* order, and records no diagnostic
C18_EnumDeclaration ==
    LET ts == parserTokens IN
    IsEnum(ts) =>
        /\ pc # "threw"
        /\ reporter = <<>>
        /\ pc = "parsed" =>
              /\ Len(ret.body) = 1
              /\ ret.body[1].type = "EnumDeclaration"
              /\ ret.body[1].name = ts[2].value
              /\ ret.body[1].members = [i \in 1..MemberCount(ts) |-> ts[2 + 2 * i].value]

\* enum Color { Red , Green , Red }  has been parsed
C18_Witness ==
    /\ pc = "parsed"
    /\ IsEnum(parserTokens)
    /\ parserTokens[2].value = "Color"
    /\ ret.body[1].type = "EnumDeclaration"
    /\ ret.body[1].members = <<"Red", "Green", "Red">>

\* the tokens are  proc f ( a : T b : U ) - > R { }  with no comma between the
\* two parameters
IsTwoParametersNoComma(ts) ==
    /\ Len(ts) = 16
    /\ TypesOf(ts) = <<"Identifier", "Identifier", "ParenOpen",
                       "Identifier", "Colon", "Identifier",
                       "Identifier", "Colon", "Identifier",
                       "ParenClose", "Minus", "RightChevron", "Identifier",
                       "BraceOpen", "BraceClose", "EOF">>
    /\ ts[1].value = "proc"

CommaExpected == "Expected ',' or ')'"

\* C19: two parameters without a comma between them give exactly one diagnostic,
\* "Expected ',' or ')'", and the ProcedureDeclaration holds both parameters in
\* source order with their declared types
C19_MissingCommaRecovered ==
    LET ts == parserTokens IN
    (pc = "parsed" /\ IsTwoParametersNoComma(ts)) =>
        /\ Len(reporter) = 1
        /\ reporter[1].message = CommaExpected
        /\ Len(ret.body) = 1
        /\ ret.body[1].type = "ProcedureDeclaration"
        /\ LET parameters == ret.body[1].parameters
           IN /\ Len(parameters) = 2
              /\ \A i \in 1..2 :
                    /\ parameters[i].type = "Parameter"
                    /\ parameters[i].name = ts[1 + 3 * i].value
                    /\ parameters[i].paramType.type = "Type"
                    /\ parameters[i].paramType.typeName = ts[3 + 3 * i].value

\* proc f ( a : Number b : String ) - > Number { }  has been parsed
C19_Witness ==
    /\ pc = "parsed"
    /\ IsTwoParametersNoComma(parserTokens)
    /\ parserTokens[4].value = "a" /\ parserTokens[6].value = "Number"
    /\ parserTokens[7].value = "b" /\ parserTokens[9].value = "String"
    /\ Len(ret.body[1].parameters) = 2
    /\ Len(reporter) = 1

\* C20: whenever parse has recorded at least one diagnostic, the tree it returns
\* contains at least one error node, an ErrorStatement or an ErrorToken
C20_ErrorsVisibleInTree ==
    (pc = "parsed" /\ reporter # <<>>) => HasErrorNode(ret)

(***************************************************************************)
(* Properties of the trees parse returns.                                  *)
(***************************************************************************)
\* start precedes or equals end, by line and then by column
Precedes(start, end) ==
    \/ start.line < end.line
    \/ start.line = end.line /\ start.column <= end.column

Every(list, Test(_)) == \A i \in DOMAIN list : Test(list[i])

\* the node, when there is one and it is no error node, has an ordered span, and
\* so have the nodes below it
RECURSIVE SpansOrdered(_)
SpansOrdered(node) ==
    LET type == node.type
        own == IF "loc" \in DOMAIN node THEN Precedes(node.loc.start, node.loc.end) ELSE TRUE
    IN IF type \in ErrorNodeTypes \cup {Null, Undefined} THEN TRUE
       ELSE own /\
            CASE type = "Program" -> Every(node.body, SpansOrdered)
              [] type = "ExpressionStatement" -> SpansOrdered(node.expression)
              [] type = "VariableDeclaration" ->
                    SpansOrdered(node.varType) /\ SpansOrdered(node.initializer)
              [] type = "HandlerDeclaration" ->
                    SpansOrdered(node.call) /\ SpansOrdered(node.body)
              [] type = "Block" -> Every(node.body, SpansOrdered)
              [] type = "ProcedureDeclaration" ->
                    /\ Every(node.decorators, SpansOrdered)
                    /\ Every(node.parameters, SpansOrdered)
                    /\ SpansOrdered(node.returnType)
                    /\ Every(node.body, SpansOrdered)
              [] type = "Decorator" -> SpansOrdered(node.value)
              [] type = "Parameter" ->
                    SpansOrdered(node.paramType) /\ SpansOrdered(node.default)
              [] type = "Type" ->
                    IF "typeParams" \in DOMAIN node
                    THEN Every(node.typeParams, SpansOrdered)
                    ELSE TRUE
              [] type = "UnionType" -> SpansOrdered(node.left) /\ SpansOrdered(node.right)
              [] type = "UnaryExpression" -> SpansOrdered(node.argument)
              [] type = "BinaryExpression" ->
                    SpansOrdered(node.left) /\ SpansOrdered(node.right)
              [] type = "CallExpression" ->
                    SpansOrdered(node.callee) /\ Every(node.arguments, SpansOrdered)
              [] type = "MemberExpression" ->
                    SpansOrdered(node.object) /\ SpansOrdered(node.property)
              [] type = "ListExpression" -> Every(node.elements, SpansOrdered)
              [] type = "DictExpression" ->
                    \A i \in DOMAIN node.entries :
                        SpansOrdered(node.entries[i].key) /\ SpansOrdered(node.entries[i].value)
              [] OTHER -> TRUE

\* C21: in every tree parse returns, every node that is no error node has a
\* span whose start precedes or equals its end
C21_SpansOrdered == pc = "parsed" => SpansOrdered(ret)

(***************************************************************************)
(* One Parser used for one parse call after the other.                     *)
(***************************************************************************)
\* a ;   a   )   a ( ) { }   enum a { b }   each with its end-of-input token, and
\* a ;  and the empty sequence without one
ReuseInputs ==
    {Located(k \o EndOfInput) :
        k \in {<<Valued("Identifier", "a"), Unit("Semicolon")>>,
               <<Valued("Identifier", "a")>>,
               <<Unit("ParenClose")>>,
               <<Valued("Identifier", "a"), Unit("ParenOpen"), Unit("ParenClose"),
                 Unit("BraceOpen"), Unit("BraceClose")>>,
               <<Valued("Identifier", "enum"), Valued("Identifier", "a"),
                 Unit("BraceOpen"), Valued("Identifier", "b"), Unit("BraceClose")>>}}
    \cup {Located(<<Valued("Identifier", "a"), Unit("Semicolon")>>), <<>>}

ParseFirst == Parse(ReuseInputs)

\* parse is called again on the Parser whose earlier call has returned or thrown
ParseAgain ==
    /\ pc \in {"parsed", "threw"}
    /\ \E ts \in ReuseInputs : ParseCall(ts)

NextReuse == ParseFirst \/ ParseAgain \/ ParserStep

SpecReuse == Init /\ [][NextReuse]_vars

\* a parse call runs no more than MaxSteps steps on these sequences
MaxSteps == 60

\* the steps of a parse call, one after the other, until it returns or throws
RECURSIVE ParseLoop(_, _)
ParseLoop(p, steps) ==
    IF p.status # "parsing" \/ steps = 0 THEN p ELSE ParseLoop(ParserRun(p), steps - 1)

\* new Parser(reporter).parse(ts) with a reporter that holds nothing yet
FreshParse(ts) ==
    ParseLoop([tokens |-> ts, position |-> 0, errors |-> <<>>,
               stack |-> <<FrameParse>>, ret |-> NoNode, status |-> "parsing"],
              MaxSteps)

\* C22: when a parse call returns, on a new Parser or on one used before for
\* whatever sequence, its tree is the tree a new Parser returns for the tokens
C22_ParseDeterministic ==
    pc = "parsed" =>
        /\ FreshParse(parserTokens).status = "parsed"
        /\ ret = FreshParse(parserTokens).ret

\* a ; has been parsed by a Parser whose earlier parse recorded a diagnostic
C22_Witness ==
    /\ pc = "parsed"
    /\ TypesOf(parserTokens) = <<"Identifier", "Semicolon", "EOF">>
    /\ reporter # <<>>
    /\ ret.type = "Program"

(***************************************************************************)
(* One Lexer used for one tokenize call after the other.                   *)
(***************************************************************************)
\* an identifier, a number with a second decimal point, an operator that is
\* none, and texts that end inside a string, an escape, a comment, an operator
\* and a number
ReuseSources ==
    {<<"a">>, <<"1", ".", "2", ".", "3">>, <<"&">>, <<"\"", "a">>, <<"\"", "\\">>,
     <<"#", "<", "a">>, <<"<", "E">>, <<"1", ".">>}

TokenizeFirst == Tokenize(ReuseSources)

\* tokenize is called again on the Lexer whose earlier call has returned
TokenizeAgain ==
    /\ pc = "lexed"
    /\ \E raw \in ReuseSources : SetLexer(TokenizeReset(LexerView, raw))
    /\ pc' = "lexing"
    /\ UNCHANGED <<parserVars, cli>>

NextLexerReuse == TokenizeFirst \/ TokenizeAgain \/ LexerStep \/ TokenizeReturn

SpecLexerReuse == Init /\ [][NextLexerReuse]_vars

\* C23: tokenize on a Lexer used before returns the tokens a new Lexer returns
\* for the source, whatever the earlier source was, and no step of the call
\* alters the array the earlier call returned
C23_LexerReusable ==
    /\ [](pc = "lexed" => tokens = tokenize(Raw))
    /\ [][pc' = "lexing" => returned'.array = returned.array]_vars

\* a second call is on its way: the array the earlier call returned holds its
\* tokens, and is not the array the call fills
C23_Witness ==
    /\ pc = "lexing"
    /\ ~returned.live
    /\ Len(returned.array) > 1
    /\ tokens # <<>>
    /\ tokens # returned.array

(***************************************************************************)
(* The command line (packages/compiler/src/cli.ts): the tokenize and the   *)
(* parse command, each on a file of its own with a reporter, a Lexer and a *)
(* Parser of its own.                                                      *)
(***************************************************************************)
\* ErrorReporter.print: console.error of each formatted error in turn; format
\* throws a RangeError at " ".repeat(column - 1) when the column is below 1
RECURSIVE ReporterPrint(_)
ReporterPrint(errors) ==
    IF errors = <<>> THEN [printed |-> <<>>, threw |-> FALSE]
    ELSE IF Head(errors).column < 1 THEN [printed |-> <<>>, threw |-> TRUE]
    ELSE LET rest == ReporterPrint(Tail(errors))
         IN [rest EXCEPT !.printed = <<Head(errors)>> \o @]

\* reporter.print() in a command: what it throws goes to the catch callback
CliPrint ==
    LET out == ReporterPrint(reporter)
    IN cli' = [cli EXCEPT !.printed = out.printed, !.caught = out.threw]

\* the files: a statement, an enum, a number with two decimal points, a
\* character that starts no token, a string that is not closed
CliPieces ==
    {<<"a", ";">>, <<"e", "n", "u", "m", " ", "a", "{", "b", "}">>,
     <<"1", ".", "2", ".", "3">>, <<"&">>, <<"\"", "a">>, <<"\n">>}

\* a command starts: the file is read and tokenize is called on it
CliCommand ==
    /\ pc = "idle"
    /\ \E command \in {"tokenize", "parse"} : cli' = [cli EXCEPT !.command = command]
    /\ \E raw \in Texts(CliPieces, 2) : SetLexer(TokenizeReset(LexerView, raw))
    /\ pc' = "lexing"
    /\ UNCHANGED parserVars

\* the tokenize command after tokenize returned: the tokens are written
CliTokenizeWrite ==
    /\ pc = "lexed"
    /\ cli.command = "tokenize"
    /\ cli' = [cli EXCEPT !.written = "tokens"]
    /\ pc' = "exited"
    /\ UNCHANGED <<lexerVars, reporter, parserVars>>

\* the parse command after tokenize returned: with errors they are printed and
\* the command returns, without parse is called
CliParseLexed ==
    /\ pc = "lexed"
    /\ cli.command = "parse"
    /\ IF reporter # <<>>
       THEN /\ CliPrint
            /\ pc' = "exited"
            /\ UNCHANGED <<lexerVars, reporter, parserVars>>
       ELSE ParseCall(tokens)

\* the parse command after parse returned or threw: what it threw goes to the
\* catch callback, with errors they are printed, without the tree is written
CliParseEnd ==
    /\ pc \in {"parsed", "threw"}
    /\ cli.command = "parse"
    /\ IF pc = "threw" THEN cli' = [cli EXCEPT !.caught = TRUE]
       ELSE IF reporter # <<>> THEN CliPrint
       ELSE cli' = [cli EXCEPT !.written = "tree"]
    /\ pc' = "exited"
    /\ UNCHANGED <<lexerVars, reporter, parserVars>>

NextCli ==
    \/ CliCommand
    \/ LexerStep
    \/ TokenizeReturn
    \/ CliTokenizeWrite
    \/ CliParseLexed
    \/ ParserStep
    \/ CliParseEnd

SpecCli == Init /\ [][NextCli]_vars

\* C24: when the lexer or the parser reported a diagnostic, the command, tokenize
\* as well as parse, has printed every diagnostic, has written no output file and
\* ends with an exit status that is not zero
C24_DiagnosticsFailCommand ==
    (pc = "exited" /\ reporter # <<>>) =>
        /\ cli.printed = reporter
        /\ cli.written = Null
        /\ cli.exitCode # 0

(***************************************************************************)
(* Operators: the walk back to the last valid operator.                    *)
(***************************************************************************)
\* the Operator state is at a character the trie has no step for, after a walk
\* that passed an operator
OperatorWalkFails ==
    /\ pc = "lexing"
    /\ currentState = "Operator"
    /\ operatorNode # NullNode
    /\ lastValidOperatorNode # NoLastValid
    /\ Peek(LexerView, 0) # Null
    /\ TrieStep(operatorNode, Peek(LexerView, 0)) = NullNode

\* C25: when the walk fails after it passed an operator, the lexer emits that
\* operator and goes on at the character right after the operator's lexeme, so
\* none of the characters the walk took beyond it is lost
C25_BacktrackLosesNothing ==
    [][OperatorWalkFails =>
          /\ Len(tokens') = Len(tokens) + 1
          /\ tokens'[Len(tokens')].type = NodeTokenType(lastValidOperatorNode.node)
          /\ position' = position - (Len(buffer) - lastValidOperatorNode.len)]_vars

(***************************************************************************)
(* The end-of-input token.                                                 *)
(***************************************************************************)
\* the places of the EOF tokens in a token list
EndOfInputTokens(list) == {i \in 1..Len(list) : list[i].type = "<EOF>"}

\* C26: the token sequence tokenize returns holds exactly one end-of-input
\* token, and it is the last token
C26_OneEndOfInputToken ==
    pc = "lexed" => EndOfInputTokens(tokens) = {Len(tokens)} /\ tokens # <<>>

(***************************************************************************)
(* Precedence.                                                             *)
(***************************************************************************)
\* the tokens are  a op1 b op2 c ;  with two binary operators
IsPair(ts) ==
    /\ Len(ts) = 7
    /\ ts[2].type \in BinaryOperators
    /\ ts[4].type \in BinaryOperators
    /\ TypesOf(ts) = <<"Identifier", ts[2].type, "Identifier", ts[4].type, "Identifier",
                       "Semicolon", "EOF">>

\* C27: precedence follows the left binding power: when the second operator of
\* a op1 b op2 c has the larger one the tree is op1(a, op2(b, c)), and when the
\* first has the larger one it is op2(op1(a, b), c)
C27_PrecedenceByLeftBindingPower ==
    (pc = "parsed" /\ IsPair(parserTokens)) =>
        LET ts == parserTokens
            op1 == ts[2].type
            op2 == ts[4].type
            a == Id(ts[1].value)
            b == Id(ts[3].value)
            c == Id(ts[5].value)
        IN /\ bindingPowerTable[op1].lbp < bindingPowerTable[op2].lbp =>
                ParsedExpression /\ TheExpression = Bin(op1, a, Bin(op2, b, c))
           /\ bindingPowerTable[op1].lbp > bindingPowerTable[op2].lbp =>
                ParsedExpression /\ TheExpression = Bin(op2, Bin(op1, a, b), c)

\* a * b + c; has been parsed: the sum of a product and c
C27_Witness ==
    /\ pc = "parsed"
    /\ IsPair(parserTokens)
    /\ parserTokens[2].type = "Asterisk"
    /\ parserTokens[4].type = "Plus"
    /\ ParsedExpression
    /\ TheExpression = Bin("Plus", Bin("Asterisk", Id("a"), Id("b")), Id("c"))

(***************************************************************************)
(* The tokens that end an expression: an operand, or an operation at any   *)
(* minimum binding power, and after it a token that is no infix operator.  *)
(***************************************************************************)
StopTokens ==
    {"Semicolon", "Comma", "ParenClose", "BracketClose", "Colon", "Equals",
     "BraceOpen", "BraceClose", "Exclamation", "EOF"}

\* a   a op b   u a   a . b   f ( a   f ( a op b
Operands ==
    LET a == Valued("Identifier", "a")
        b == Valued("Identifier", "b")
        call == <<Valued("Identifier", "f"), Unit("ParenOpen")>>
    IN {<<a>>, <<a, Unit("Dot"), b>>, call \o <<a>>}
       \cup {<<a, Unit(op), b>> : op \in BinaryOperators}
       \cup {call \o <<a, Unit(op), b>> : op \in BinaryOperators}
       \cup {call \o <<Unit(u), a>> : u \in UnaryOperators}

\* an operand, a stop token, and then a semicolon and the end-of-input token,
\* the end-of-input token alone, or nothing
StopInputs ==
    {Located(e \o <<Unit(t)>> \o rest) :
        e \in Operands, t \in StopTokens,
        rest \in {<<>>, EndOfInput, <<Unit("Semicolon")>> \o EndOfInput}}

ParseStops == Parse(StopInputs)

NextStops == ParseStops \/ ParserStep

SpecStops == Init /\ [][NextStops]_vars

\* the Parser is at the test of the infix loop of parseExpression
AtInfixLoop(p) ==
    /\ p.status = "parsing"
    /\ p.stack # <<>>
    /\ Top(p).fn = "parseExpression"
    /\ Top(p).at = "loop"

\* the token has no entry in the binding power table, or a left binding power of 0
NoInfixOperator(token) ==
    /\ token.type # Null
    /\ token.type \in DOMAIN bindingPowerTable => bindingPowerTable[token.type].lbp = 0

\* C28: the infix loop of parseExpression consumes no token that has no entry in
\* the binding power table or a left binding power of 0: at such a token
\* parseExpression returns what it has parsed with the cursor on that token,
\* whatever its minimum binding power is
C28_InfixLoopStops ==
    [][(AtInfixLoop(ParserView) /\ NoInfixOperator(ParserPeek(ParserView)))
       => /\ parserPosition' = parserPosition
          /\ parserTokens' = parserTokens
          /\ reporter' = reporter
          /\ stack' = Callers(ParserView)
          /\ ret' = Top(ParserView).left]_vars

\* the right operand of an operator has been parsed with that operator's right
\* binding power, and the cursor is on the colon that ended it
C28_Witness ==
    /\ pc = "parsing"
    /\ stack # <<>>
    /\ Top(ParserView).fn = "parseInfix"
    /\ Top(ParserView).at = "right"
    /\ Top(ParserView).bp.rbp > 0
    /\ ret.type = "Identifier"
    /\ ParserPeek(ParserView).type = "Colon"

(***************************************************************************)
(* synchronize: a procedure whose decorator name is followed by neither =  *)
(* nor a comma, then up to two tokens, then a token of the set synchronize *)
(* looks for or none, with and without the end-of-input token.             *)
(***************************************************************************)
SynchronizeInputs ==
    LET begin == <<Valued("Identifier", "proc"), Valued("Identifier", "a"),
                   Unit("ParenOpen"), Unit("AtSymbol"), Valued("Identifier", "b"),
                   Unit("Semicolon")>>
        skipped == Texts({<<Valued("Identifier", "c")>>, <<Valued("Number", "1")>>,
                          <<Unit("BraceClose")>>}, 2)
        found == {<<>>, <<Unit("Comma")>>, <<Unit("Equals")>>, <<Unit("ParenClose")>>}
    IN {Located(begin \o s \o f \o rest) :
            s \in skipped, f \in found, rest \in {<<>>, EndOfInput}}

ParseSynchronize == Parse(SynchronizeInputs)

NextSynchronize == ParseSynchronize \/ ParserStep

SpecSynchronize == Init /\ [][NextSynchronize]_vars

\* a method that runs keeps running: no parse call is abandoned half way
SpecSynchronizeFair == SpecSynchronize /\ WF_vars(ParserStep)

\* synchronize is running
InSynchronize ==
    /\ pc = "parsing"
    /\ stack # <<>>
    /\ Top(ParserView).fn = "synchronize"

\* synchronize is at the test of its loop
AtSynchronizeLoop == InSynchronize /\ Top(ParserView).at = "loop"

\* the token the cursor is on is one synchronize looks for
AtResyncToken ==
    LET token == ParserPeek(ParserView)
        f == Top(ParserView)
    IN /\ token.type # Null
       /\ \/ token.type \in f.types
          \/ isValuedTokenType(token.type) /\ token.value \in f.values

\* C29: synchronize always terminates; it stops on the first token of its set
\* without consuming it and without a diagnostic; a token that is not of the set
\* and not the end of the input is skipped; with no token of the set before the
\* end of the input it stops there with exactly one diagnostic, at the position
\* where it began
C29_SynchronizeTerminates ==
    /\ [](InSynchronize => <>(~InSynchronize))
    /\ [][AtSynchronizeLoop =>
            LET token == ParserPeek(ParserView)
                f == Top(ParserView)
            IN IF AtResyncToken
               THEN /\ stack' = Callers(ParserView)
                    /\ parserPosition' = parserPosition
                    /\ reporter' = reporter
               ELSE IF token.type \in {Null, "EOF"}
               THEN /\ stack' = Callers(ParserView)
                    /\ parserPosition' = parserPosition
                    /\ Len(reporter) < MaxErrors =>
                          reporter' = Append(reporter,
                                             KatnipError("Parser", f.message, f.beginning))
               ELSE /\ stack' = stack
                    /\ parserPosition' = parserPosition + 1
                    /\ reporter' = reporter]_vars

(***************************************************************************)
(* consume, checkToken and tryConsume, with the arguments the Parser's     *)
(* methods call them with, in every state a parse call passes through.     *)
(***************************************************************************)
Expected(types, values) == [types |-> types, values |-> values]

\* the first arguments of the calls of consume
ConsumeCalls ==
    {Expected({t}, {}) :
        t \in {"Identifier", "RightChevron", "Semicolon", "Colon", "Comma", "ParenClose",
               "Minus", "BraceOpen", "BraceClose", "Equals", "BracketClose", "String",
               "Number"}}
    \cup {Expected({"Identifier"}, {"proc"}), Expected({"Identifier"}, {"enum"}),
          Expected({"Identifier"}, {"private", "temp", "public"})}

\* the arguments of the calls of tryConsume
TryConsumeCalls ==
    {Expected({t}, {}) :
        t \in {"BraceOpen", "BracketOpen", "Comma", "Equals", "LeftChevron", "ParenOpen",
               "Pipe"}}

\* C30: on a token that matches, consume moves the cursor forward by exactly
\* one, records no diagnostic and returns that token; on a token that does not
\* match it records exactly one diagnostic, leaves the cursor where it is and
\* returns the ErrorToken with the empty text; tryConsume moves the cursor by one
\* when checkToken holds and leaves the Parser as it is when it does not, and
\* checkToken itself is a test that changes nothing
C30_ConsumeFrame ==
    pc = "parsing" =>
        LET p == ParserView IN
        /\ ParserPeek(p).type # Null =>
              \A call \in ConsumeCalls :
                  LET after == consume(p, call.types, call.values, "Expected")
                      token == consumed(p, call.types, call.values)
                  IN IF Matches(p, call.types, call.values)
                     THEN /\ after = [p EXCEPT !.position = p.position + 1]
                          /\ token = ParserPeek(p)
                     ELSE /\ after.position = p.position
                          /\ after.tokens = p.tokens
                          /\ after.stack = p.stack
                          /\ Len(p.errors) < MaxErrors =>
                                /\ Len(after.errors) = Len(p.errors) + 1
                                /\ SubSeq(after.errors, 1, Len(p.errors)) = p.errors
                                /\ after.errors[Len(after.errors)].message = "Expected"
                          /\ token.type = "ErrorToken"
                          /\ token.value = ""
        /\ \A call \in TryConsumeCalls :
              tryConsume(p, "type", call.types) =
                  IF checkToken(p, "type", call.types)
                  THEN [p EXCEPT !.position = p.position + 1]
                  ELSE p

\* the semicolon of an expression statement was missing: consume has recorded its
\* one diagnostic, and parseStatement has returned the statement all the same
C30_Witness ==
    /\ pc = "parsing"
    /\ Len(reporter) = 1
    /\ reporter[1].message = "Expected semicolon at the end of an expression statement"
    /\ ret.type = "ExpressionStatement"
    /\ ParserPeek(ParserView).type # Null

(***************************************************************************)
(* Tokens with white space between them: the token after a token starts    *)
(* two columns after that token's end.                                     *)
(***************************************************************************)
RECURSIVE Spaced(_)
Spaced(kinds) ==
    IF kinds = <<>> THEN <<>>
    ELSE LET n == Len(kinds)
             kind == kinds[n]
             start == Pos(1, 3 * n - 2)
             end == Pos(1, 3 * n - 1)
         IN Append(Spaced(SubSeq(kinds, 1, n - 1)),
                   IF isValuedTokenType(kind.type)
                   THEN [type |-> kind.type, value |-> kind.value,
                         start |-> start, end |-> end]
                   ELSE [type |-> kind.type, start |-> start, end |-> end])

SpacedInputs(n) == {Spaced(k \o EndOfInput) : k \in Texts(StatementPieces, n)}

ParseSpaced == Parse(SpacedInputs(MaxTokenPieces))

NextSpaced == ParseSpaced \/ ParserStep

SpecSpaced == Init /\ [][NextSpaced]_vars

\* the cursor is at the end of the input: on the EOF token, or past the last token
AtEndOfInput(p) == ParserPeek(p).type \in {Null, "EOF"}

\* C31: the diagnostic consume records on a mismatch is at the start of the token
\* the cursor is on whenever the cursor is not at the end of the input, and at
\* the previous token's position only when it is
C31_DiagnosticAtCurrentToken ==
    (pc = "parsing" /\ Len(reporter) < MaxErrors) =>
        LET p == ParserView IN
        \A call \in ConsumeCalls :
            (~Matches(p, call.types, call.values)
                    /\ (ParserPeek(p).type # Null \/ previous(p).type # Null)) =>
                LET after == consume(p, call.types, call.values, "Expected")
                    error == after.errors[Len(after.errors)]
                    at == Pos(error.line, error.column)
                IN /\ Len(after.errors) = Len(p.errors) + 1
                   /\ IF AtEndOfInput(p) /\ previous(p).type # Null
                      THEN at = previous(p).end
                      ELSE at = ParserPeek(p).start

(***************************************************************************)
(* parsePrefix at the end of the input.                                    *)
(***************************************************************************)
\* parsePrefix has been called and is at its first statement
AtPrefix(p) ==
    /\ p.status = "parsing"
    /\ p.stack # <<>>
    /\ Top(p).fn = "parsePrefix"
    /\ Top(p).at = "start"

\* C32: when an expression is expected and the cursor is at the end of the
\* input, parsePrefix returns an ErrorToken expression, records no diagnostic
\* and does not move the cursor
C32_PrefixAtEndOfInput ==
    [][(AtPrefix(ParserView) /\ AtEndOfInput(ParserView))
       => /\ stack' = Callers(ParserView)
          /\ ret'.type = "ErrorToken"
          /\ reporter' = reporter
          /\ parserPosition' = parserPosition]_vars

(***************************************************************************)
(* Decorators: procedures whose list holds at most MaxMembers items, each  *)
(* a decorator without a value (@p), a decorator with one (@q = a) or a    *)
(* parameter (a : Number), in any order, with a comma between two items.   *)
(***************************************************************************)
Decorators == {<<Unit("AtSymbol")>> \o Name("p"),
               <<Unit("AtSymbol")>> \o Name("q") \o <<Unit("Equals")>> \o Name("a")}

Parameters == {Parameter("a", "Number")}

\* at most n of the items, a comma between two of them
RECURSIVE ItemLists(_, _)
ItemLists(items, n) ==
    IF n = 0 THEN {<<>>}
    ELSE LET shorter == ItemLists(items, n - 1)
         IN shorter \cup {l \o (IF l = <<>> THEN <<>> ELSE <<Unit("Comma")>>) \o item :
                            l \in shorter, item \in items}

\* proc f ( items ) - > Number { }
Decorated(items) ==
    Located(Name("proc") \o Name("f") \o <<Unit("ParenOpen")>> \o items
            \o <<Unit("ParenClose"), Unit("Minus"), Unit("RightChevron")>>
            \o Name("Number") \o <<Unit("BraceOpen"), Unit("BraceClose")>> \o EndOfInput)

DecoratedInputs(n) == {Decorated(l) : l \in ItemLists(Decorators \cup Parameters, n)}

ParseDecorated == Parse(DecoratedInputs(MaxMembers))

NextDecorated == ParseDecorated \/ ParserStep

SpecDecorated == Init /\ [][NextDecorated]_vars

\* the places of the tokens of type `type`
Places(ts, type) == {i \in 1..Len(ts) : ts[i].type = type}

\* the place where the first item that begins with a bare identifier begins, or
\* the place after the last token when there is none
FirstParameter(ts) ==
    LET begins == {i \in 2..Len(ts) : /\ ts[i].type = "Identifier"
                                      /\ ts[i - 1].type \in {"ParenOpen", "Comma"}
                                      /\ i > 3}
    IN IF begins = {} THEN Len(ts) + 1 ELSE CHOOSE i \in begins : \A j \in begins : i <= j

\* every decorator of the list stands before every parameter
DecoratorsFirst(ts) == \A i \in Places(ts, "AtSymbol") : i < FirstParameter(ts)

\* the decorator has the value a decorator without one gets
IsDefaultTrue(decorator) ==
    /\ decorator.value.type = "Literal"
    /\ decorator.value.value = "true"

\* C33: a decorator without a value is accepted without a diagnostic wherever it
\* stands among the decorators, as the last item before the closing parenthesis
\* too, and gets the default true value
C33_DecoratorWithoutValue ==
    (pc = "parsed" /\ DecoratorsFirst(parserTokens)) =>
        /\ reporter = <<>>
        /\ Len(ret.body) = 1
        /\ ret.body[1].type = "ProcedureDeclaration"
        /\ Len(ret.body[1].decorators) = Cardinality(Places(parserTokens, "AtSymbol"))
        /\ \A i \in DOMAIN ret.body[1].decorators :
              ret.body[1].decorators[i].name = "p" => IsDefaultTrue(ret.body[1].decorators[i])

\* the frames of parseProcedureDefinition that have seen a bare identifier
PastDecorators(frames) ==
    {i \in DOMAIN frames : /\ frames[i].fn = "parseProcedureDefinition"
                           /\ ~frames[i].parsingDecorators}

\* the @ tokens that stand before the first item beginning with a bare identifier
LeadingDecorators(ts) == {i \in Places(ts, "AtSymbol") : i < FirstParameter(ts)}

\* C34: in every ProcedureDeclaration all decorators precede all parameters: once
\* the list has seen a bare identifier no entry is added to the procedure's
\* decorators, for an item with a leading @ neither, so the declaration holds no
\* more decorators than the list has before its first parameter
C34_DecoratorsBeforeParameters ==
    /\ [][\A i \in PastDecorators(stack) :
              i \in DOMAIN stack' =>
                  /\ stack'[i].fn = "parseProcedureDefinition"
                  /\ ~stack'[i].parsingDecorators
                  /\ stack'[i].decorators = stack[i].decorators]_vars
    /\ [](pc = "parsed" =>
            /\ Len(ret.body) = 1
            /\ ret.body[1].type = "ProcedureDeclaration"
            /\ Len(ret.body[1].decorators) = Cardinality(LeadingDecorators(parserTokens)))

\* proc f(a : Number, @p) -> Number {} has been parsed: no decorator, and p is
\* the second parameter
C34_Witness ==
    /\ pc = "parsed"
    /\ Places(parserTokens, "AtSymbol") = {8}
    /\ FirstParameter(parserTokens) = 4
    /\ ret.body[1].decorators = <<>>
    /\ Len(ret.body[1].parameters) = 2
    /\ ret.body[1].parameters[2].name = "p"

(***************************************************************************)
(* Type annotations: a variable declaration whose type is a chain of at    *)
(* most MaxMembers primary types with | between them, a primary type being *)
(* a name, or a name with one argument that is a name or a union of two.   *)
(***************************************************************************)
\* the shapes of type nodes, without their locations
Named(name, params) == [name |-> name, params |-> params]

Union(left, right) == [union |-> <<left, right>>]

RECURSIVE TypeShape(_)
TypeShape(node) ==
    CASE node.type = "Type" ->
            Named(node.typeName,
                  IF "typeParams" \in DOMAIN node
                  THEN [i \in DOMAIN node.typeParams |-> TypeShape(node.typeParams[i])]
                  ELSE <<>>)
      [] node.type = "UnionType" -> Union(TypeShape(node.left), TypeShape(node.right))
      [] OTHER -> [type |-> node.type]

\* a written type: its tokens, and the tree it stands for
Written(kinds, shape) == [kinds |-> kinds, shape |-> shape]

\* A   B   C<A>   C<A | B>
PrimaryTypes ==
    LET generic(argument) ==
            Written(Name("C") \o <<Unit("LeftChevron")>> \o argument.kinds
                        \o <<Unit("RightChevron")>>,
                    Named("C", <<argument.shape>>))
        A == Written(Name("A"), Named("A", <<>>))
        B == Written(Name("B"), Named("B", <<>>))
    IN {A, B, generic(A),
        generic(Written(A.kinds \o <<Unit("Pipe")>> \o B.kinds, Union(A.shape, B.shape)))}

\* T1 | ... | Tk  for k from 1 to n, and the union accumulated from the left
RECURSIVE TypeChains(_)
TypeChains(n) ==
    IF n = 1 THEN PrimaryTypes
    ELSE LET shorter == TypeChains(n - 1)
         IN shorter \cup {Written(c.kinds \o <<Unit("Pipe")>> \o t.kinds,
                                  Union(c.shape, t.shape)) :
                            c \in shorter, t \in PrimaryTypes}

\* temp x : TYPE = 1 ;
Typed(kinds) ==
    Located(Name("temp") \o Name("x") \o <<Unit("Colon")>> \o kinds
            \o <<Unit("Equals"), Valued("Number", "1"), Unit("Semicolon")>> \o EndOfInput)

ParseTypes == Parse({Typed(c.kinds) : c \in TypeChains(MaxMembers)})

NextTypes == ParseTypes \/ ParserStep

SpecTypes == Init /\ [][NextTypes]_vars

\* C35: T1 | T2 | ... | Tn parses into a chain in which each | makes a union
\* node whose left child is the union accumulated so far and whose right child
\* is the next primary type, A | B | C being Union(Union(A, B), C); the argument
\* list <...> belongs to the primary type directly before it
C35_UnionChain ==
    pc = "parsed" =>
        \A c \in TypeChains(MaxMembers) :
            parserTokens = Typed(c.kinds) =>
                /\ reporter = <<>>
                /\ Len(ret.body) = 1
                /\ ret.body[1].type = "VariableDeclaration"
                /\ TypeShape(ret.body[1].varType) = c.shape

\* temp x : A | C<A | B> | B = 1; has been parsed
C35_Witness ==
    /\ pc = "parsed"
    /\ Len(ret.body) = 1
    /\ ret.body[1].type = "VariableDeclaration"
    /\ TypeShape(ret.body[1].varType) =
           Union(Union(Named("A", <<>>),
                       Named("C", <<Union(Named("A", <<>>), Named("B", <<>>))>>)),
                 Named("B", <<>>))

(***************************************************************************)
(* Unicode escapes with fewer than four hexadecimal digits.                *)
(***************************************************************************)
\* the text is one string: a quote, \u, fewer than four hexadecimal digits, and
\* the same quote
IsShortEscape(text) ==
    /\ Len(text) >= 4
    /\ Len(text) < 4 + UnicodeEscapeLength
    /\ text[1] \in {"\"", "'"}
    /\ text[2] = "\\"
    /\ text[3] = "u"
    /\ text[Len(text)] = text[1]
    /\ \A i \in 4..(Len(text) - 1) : IsHexDigit(text[i])

\* C36: a \u escape with fewer than four hexadecimal digits after it records a
\* diagnostic and the string goes on as usual: the escape does not take the
\* closing quote, and the String token is emitted at that quote
C36_ShortEscapeKeepsQuote ==
    (pc = "lexed" /\ IsShortEscape(Raw)) =>
        /\ reporter # <<>>
        /\ tokens # <<>>
        /\ tokens[1].type = "String"
        /\ tokens[1].start = Pos(1, 1)
        /\ tokens[1].end = Pos(1, Len(Raw) + 1)

(***************************************************************************)
(* Line and column: texts of identifiers, newlines, blanks, strings,       *)
(* comments and operators, among them < and E, which the operator walk     *)
(* takes beyond the operator <.                                            *)
(***************************************************************************)
PositionPieces == {<<"a">>, <<"\n">>, <<" ">>, <<"<">>, <<"E">>, <<"\"">>, <<"#">>}

TokenizePositions == Tokenize(Texts(PositionPieces, MaxPieces))

NextPositions == TokenizePositions \/ LexerStep \/ TokenizeReturn

SpecPositions == Init /\ [][NextPositions]_vars

\* the places of the newlines among the first n characters of the text
Newlines(text, n) == {i \in 1..n : text[i] = "\n"}

\* the number of characters of the first n after the last newline among them
SinceNewline(text, n) ==
    LET newlines == Newlines(text, n)
    IN IF newlines = {} THEN n
       ELSE n - (CHOOSE i \in newlines : \A j \in newlines : j <= i)

\* C37: at every point of tokenize the line is 1 plus the number of newlines
\* among the characters consumed and the column 1 plus the number of characters
\* consumed since the last of them, and every token emitted has a start that
\* does not lie after its end, with a line and a column of at least 1
C37_LineAndColumn ==
    pc \in {"lexing", "lexed"} =>
        /\ position <= Len(src)
        /\ line = 1 + Cardinality(Newlines(src, position))
        /\ col = 1 + SinceNewline(src, position)
        /\ \A i \in DOMAIN tokens :
              /\ Precedes(tokens[i].start, tokens[i].end)
              /\ tokens[i].start.line >= 1
              /\ tokens[i].start.column >= 1

\* a text of more than one line has been lexed, with the operator < on its
\* second line and an E behind it that the walk took and the lexer went on after
C37_Witness ==
    /\ pc = "lexed"
    /\ line = 2
    /\ Len(Raw) = 4
    /\ Raw[2] = "\n"
    /\ Raw[3] = "<"
    /\ Raw[4] = "E"
    /\ \E i \in DOMAIN tokens : tokens[i].type = "<" /\ tokens[i].start = Pos(2, 1)

(***************************************************************************)
(* The cursor: sequences that end with the end-of-input token and may hold *)
(* another one before it.                                                  *)
(***************************************************************************)
CursorPieces ==
    {<<Valued("Identifier", "a")>>,
     <<Valued("Identifier", "a"), Unit("ParenOpen")>>,
     <<Valued("Identifier", "enum"), Valued("Identifier", "a"), Unit("BraceOpen")>>,
     <<Unit("BracketOpen")>>, <<Unit("Semicolon")>>, <<Unit("ParenClose")>>,
     <<Valued("Identifier", "a"), Unit("Minus")>>, <<Unit("EOF")>>}

CursorInputs(n) == {Located(k \o EndOfInput) : k \in Texts(CursorPieces, n)}

ParseCursor == Parse(CursorInputs(MaxTokenPieces))

NextCursor == ParseCursor \/ ParserStep

SpecCursor == Init /\ [][NextCursor]_vars

\* the index the cursor has at the first end-of-input token of ts
FirstEndOfInput(ts) ==
    (CHOOSE i \in DOMAIN ts :
        ts[i].type = "EOF" /\ \A j \in 1..(i - 1) : ts[j].type # "EOF") - 1

\* C38: during parse of a sequence that ends with the end-of-input token no
\* step moves the cursor back, the cursor is never beyond the first
\* end-of-input token, peek returns a token, and an advance at the
\* end-of-input token leaves the cursor where it is
C38_CursorWithinInput ==
    /\ [][pc = "parsing" /\ EndsWithEOF(parserTokens)
             => parserPosition' >= parserPosition]_vars
    /\ [](pc \in {"parsing", "parsed", "thrown"} /\ EndsWithEOF(parserTokens)
             => /\ parserPosition <= FirstEndOfInput(parserTokens)
                /\ ParserPeek(ParserView).type # Null
                /\ (isAtEnd(ParserView)
                       => ParserAdvance(ParserView).position = parserPosition))

\* a ( EOF a EOF: the argument's parsePrefix has called advance at the first
\* end-of-input token and reported what it found, and the cursor is still there
C38_Witness ==
    /\ pc \in {"parsing", "parsed"}
    /\ TypesOf(parserTokens) = <<"Identifier", "ParenOpen", "EOF", "Identifier", "EOF">>
    /\ parserPosition = 2
    /\ reporter # <<>>

(***************************************************************************)
(* Error nodes and diagnostics.                                            *)
(***************************************************************************)
\* C39: for a sequence that ends with the end-of-input token, parse never
\* returns a tree that holds an error node, an ErrorStatement or an ErrorToken
\* expression, while the reporter is empty
C39_ErrorNodeHasDiagnostic ==
    (pc = "parsed" /\ EndsWithEOF(parserTokens) /\ HasErrorNode(ret)) => reporter # <<>>

\* a - EOF: the right operand is the error token parsePrefix returns at the
\* end-of-input token, and parse has returned with its report and the one for
\* the missing semicolon
C39_Witness ==
    /\ pc = "parsed"
    /\ TypesOf(parserTokens) = <<"Identifier", "Minus", "EOF">>
    /\ Len(ret.body) = 1
    /\ ret.body[1].type = "ExpressionStatement"
    /\ ret.body[1].expression.type = "BinaryExpression"
    /\ ret.body[1].expression.right.type = "ErrorToken"
    /\ Len(reporter) = 2

(***************************************************************************)
(* Comments that the input ends in.                                        *)
(***************************************************************************)
\* text is one expanded or collapsed comment and nothing else: it begins with
\* a "#" that no character of an ignored comment follows, and holds no other "#"
IsOneComment(text) ==
    /\ text # <<>>
    /\ text[1] = "#"
    /\ (Len(text) > 1 => text[2] \notin {"!", "["})
    /\ \A i \in 2..Len(text) : text[i] # "#"

\* the comment tokens of a token list
CommentTokens(list) == {i \in DOMAIN list : list[i].type \in CommentTokenTypes}

\* C40: a source that is one expanded or collapsed comment, ended by a newline
\* or by the end of the input, gives exactly one comment token
C40_OneTokenPerComment ==
    (pc = "lexed" /\ IsOneComment(Raw)) => Cardinality(CommentTokens(tokens)) = 1

====
